---- MODULE Spec2Model ----
(***************************************************************************)
(* Byte-level model of the UmaDB node codecs and node helpers              *)
(* (umadb-core/src/events_tree_nodes.rs, free_lists_tree_nodes.rs).        *)
(*                                                                         *)
(* A byte is a number in 0..255.  A buffer is a sequence of bytes; Rust's  *)
(* 0-based offset `off` is kept as it is in the code, and the byte at      *)
(* offset off is s[off + 1].  A u64 (PageID, Position, Tsn) is kept as     *)
(* four 16-bit limbs, least significant first, so that every value a       *)
(* decoder can read from eight arbitrary bytes is representable.  A String *)
(* is its UTF-8 byte sequence.  Option<T> is a sequence of length 0 or 1.  *)
(* A slice index past the end of a slice is a panic, which every operator  *)
(* reports as an outcome of its own ("Panic"), never as an error value.    *)
(***************************************************************************)
EXTENDS Integers, Sequences, FiniteSets, TLC

\* ------------------------------------------------------------------ bounds

\* Largest number of keys of a generated node.
MaxKeys == 2
\* Largest length of a raw (arbitrary) input byte string.
MaxRaw == 4

\* ------------------------------------------------------ primitive encodings

Byte == 0..255

\* A small u64 as its four 16-bit limbs.
U64(n) == <<n % 65536, n \div 65536, 0, 0>>

\* PageID(0): end of chain / no subtree.
PageIdZero == <<0, 0, 0, 0>>

\* usize `as u16`, then u16::to_le_bytes.
U16ToLe(n) == <<(n % 65536) % 256, (n % 65536) \div 256>>

\* u64::to_le_bytes.
U64ToLe(v) ==
    <<v[1] % 256, v[1] \div 256, v[2] % 256, v[2] \div 256,
      v[3] % 256, v[3] \div 256, v[4] % 256, v[4] \div 256>>

\* Mutant of ReadU16: only the low byte is read.
ReadU16LowByte(s, off) == s[off + 1]

\* LittleEndian::read_u16(&s[off..off + 2]).
ReadU16(s, off) == s[off + 1] + 256 * s[off + 2]

\* LittleEndian::read_u64(&s[off..off + 8]).
ReadU64(s, off) ==
    <<s[off + 1] + 256 * s[off + 2], s[off + 3] + 256 * s[off + 4],
      s[off + 5] + 256 * s[off + 6], s[off + 7] + 256 * s[off + 8]>>

\* &s[a..b] as a sequence (a <= b <= Len(s)).
Slice(s, a, b) == SubSeq(s, a + 1, b)

\* The UTF-8 continuation bytes.
IsCont(s, i) == i <= Len(s) /\ s[i] \in 128..191

\* std::str::from_utf8(bytes).is_ok(), from index i on.
RECURSIVE Utf8ValidFrom(_, _)
Utf8ValidFrom(s, i) ==
    IF i > Len(s) THEN TRUE
    ELSE LET b == s[i] IN
      CASE b < 128 -> Utf8ValidFrom(s, i + 1)
        [] b \in 194..223 -> IsCont(s, i + 1) /\ Utf8ValidFrom(s, i + 2)
        [] b = 224 -> i + 1 <= Len(s) /\ s[i + 1] \in 160..191
                      /\ IsCont(s, i + 2) /\ Utf8ValidFrom(s, i + 3)
        [] b \in (225..236) \cup (238..239) ->
                      IsCont(s, i + 1) /\ IsCont(s, i + 2) /\ Utf8ValidFrom(s, i + 3)
        [] b = 237 -> i + 1 <= Len(s) /\ s[i + 1] \in 128..159
                      /\ IsCont(s, i + 2) /\ Utf8ValidFrom(s, i + 3)
        [] b = 240 -> i + 1 <= Len(s) /\ s[i + 1] \in 144..191
                      /\ IsCont(s, i + 2) /\ IsCont(s, i + 3) /\ Utf8ValidFrom(s, i + 4)
        [] b \in 241..243 -> IsCont(s, i + 1) /\ IsCont(s, i + 2) /\ IsCont(s, i + 3)
                      /\ Utf8ValidFrom(s, i + 4)
        [] b = 244 -> i + 1 <= Len(s) /\ s[i + 1] \in 128..143
                      /\ IsCont(s, i + 2) /\ IsCont(s, i + 3) /\ Utf8ValidFrom(s, i + 4)
        [] OTHER -> FALSE

Utf8Valid(s) == Utf8ValidFrom(s, 1)

\* Sum of f[i] over i in 1..n.
RECURSIVE SumTo(_, _)
SumTo(f, n) == IF n = 0 THEN 0 ELSE f[n] + SumTo(f, n - 1)

\* --------------------------------------------------------- EventValueFlags

OVERFLOW == 1
HAS_UUID == 2

\* Mutant of FromBits: from_bits_truncate, which drops the undefined bits.
FromBitsTruncate(b) == <<b % 4>>

\* EventValueFlags::from_bits(b): None (<<>>) when a bit outside the defined
\* flags is set.
FromBits(b) == IF b \div 4 # 0 THEN <<>> ELSE <<b>>

\* flags.contains(f) for a single-bit flag f.
Contains(flags, f) == (flags \div f) % 2 = 1

\* Mutant of FlagsOf: the Overflow arm forgets HAS_UUID.
FlagsOfOverflowNoUuid(value) ==
    IF value.variant = "Overflow" THEN OVERFLOW
    ELSE IF Len(value.uuid) = 1 THEN HAS_UUID ELSE 0

\* The flags serialize_into computes for a value.
FlagsOf(value) ==
    (IF value.variant = "Overflow" THEN OVERFLOW ELSE 0)
    + (IF Len(value.uuid) = 1 THEN HAS_UUID ELSE 0)

\* ------------------------------------------------------ calc_serialized_size

\* 2 bytes of length and the bytes, for each tag.
TagsSize(tags) == SumTo([i \in 1..Len(tags) |-> 2 + Len(tags[i])], Len(tags))

\* Mutant of EventValueSize: the Overflow arm forgets the 16 bytes of the uuid.
EventValueSizeOverflowNoUuid(value) ==
    1 + (IF value.variant = "Inline"
         THEN (2 + Len(value.event_type)) + (2 + Len(value.data)) + 2
              + TagsSize(value.tags)
              + (IF Len(value.uuid) = 1 THEN 16 ELSE 0)
         ELSE (2 + Len(value.event_type)) + 8 + 2 + TagsSize(value.tags) + 8)

EventValueSize(value) ==
    1 + (IF value.variant = "Inline"
         THEN (2 + Len(value.event_type)) + (2 + Len(value.data)) + 2
              + TagsSize(value.tags)
              + (IF Len(value.uuid) = 1 THEN 16 ELSE 0)
         ELSE (2 + Len(value.event_type)) + 8 + 2 + TagsSize(value.tags) + 8
              + (IF Len(value.uuid) = 1 THEN 16 ELSE 0))

EventLeafSize(x) ==
    2 + Len(x.keys) * 8
    + SumTo([i \in 1..Len(x.values) |-> EventValueSize(x.values[i])], Len(x.values))

EventOverflowSize(x) == 8 + Len(x.data)

EventInternalSize(x) == 2 + Len(x.keys) * 8 + Len(x.child_ids) * 8

FreeListLeafSize(x) ==
    2 + Len(x.keys) * 8
    + SumTo([i \in 1..Len(x.values) |-> 2 + Len(x.values[i].page_ids) * 8 + 8],
            Len(x.values))

FreeListInternalSize(x) == 2 + Len(x.keys) * 8 + 2 + Len(x.child_ids) * 8

FreeListTsnLeafSize(x) == 2 + Len(x.page_ids) * 8

FreeListTsnInternalSize(x) == 2 + Len(x.keys) * 8 + 2 + Len(x.child_ids) * 8

calc_serialized_size(x) ==
    CASE x.kind = "EventLeaf" -> EventLeafSize(x)
      [] x.kind = "EventInternal" -> EventInternalSize(x)
      [] x.kind = "EventOverflow" -> EventOverflowSize(x)
      [] x.kind = "FreeListLeaf" -> FreeListLeafSize(x)
      [] x.kind = "FreeListInternal" -> FreeListInternalSize(x)
      [] x.kind = "FreeListTsnLeaf" -> FreeListTsnLeafSize(x)
      [] x.kind = "FreeListTsnInternal" -> FreeListTsnInternalSize(x)

\* ------------------------------------------------------------ serialize_into

\* The write cursor of serialize_into over a buffer of cap bytes: serialize_into
\* writes the ranges buf[i..i + n] one after the other, i growing by n each time,
\* so the bytes written so far are out and i = Len(out).
NewCursor(cap) == [out |-> <<>>, cap |-> cap, panic |-> FALSE]

\* buf[i..i + Len(bytes)].copy_from_slice(bytes); i += Len(bytes).
\* Panics when the range ends past the buffer.
Put(st, bytes) ==
    IF st.panic \/ Len(st.out) + Len(bytes) > st.cap
    THEN [st EXCEPT !.panic = TRUE]
    ELSE [st EXCEPT !.out = st.out \o bytes]

RECURSIVE PutU64s(_, _, _)
PutU64s(st, vals, n) ==
    IF n = 0 THEN st ELSE Put(PutU64s(st, vals, n - 1), U64ToLe(vals[n]))

\* for tag in tags { u16 length; bytes }
RECURSIVE PutTags(_, _, _)
PutTags(st, tags, n) ==
    IF n = 0 THEN st
    ELSE Put(Put(PutTags(st, tags, n - 1), U16ToLe(Len(tags[n]))), tags[n])

\* if let Some(uuid) = uuid { 16 bytes }
PutUuid(st, uuid) == IF Len(uuid) = 1 THEN Put(st, uuid[1]) ELSE st

PutEventValue(st, value) ==
    LET s1 == Put(st, <<FlagsOf(value)>>)
        s2 == Put(s1, U16ToLe(Len(value.event_type)))
        s3 == Put(s2, value.event_type)
    IN IF value.variant = "Inline"
       THEN LET s4 == Put(s3, U16ToLe(Len(value.data)))
                s5 == Put(s4, value.data)
                s6 == Put(s5, U16ToLe(Len(value.tags)))
                s7 == PutTags(s6, value.tags, Len(value.tags))
            IN PutUuid(s7, value.uuid)
       ELSE LET s4 == Put(s3, U64ToLe(value.data_len))
                s5 == Put(s4, U16ToLe(Len(value.tags)))
                s6 == PutTags(s5, value.tags, Len(value.tags))
                s7 == Put(s6, U64ToLe(value.root_id))
            IN PutUuid(s7, value.uuid)

RECURSIVE PutEventValues(_, _, _)
PutEventValues(st, values, n) ==
    IF n = 0 THEN st ELSE PutEventValue(PutEventValues(st, values, n - 1), values[n])

EventLeafSerialize(x, cap) ==
    LET s1 == Put(NewCursor(cap), U16ToLe(Len(x.keys)))
        s2 == PutU64s(s1, x.keys, Len(x.keys))
    IN PutEventValues(s2, x.values, Len(x.values))

\* buf[0..8] = next; buf[8..size] = data, with size = calc_serialized_size():
\* the second copy panics unless the buffer holds size bytes.
EventOverflowSerialize(x, cap) ==
    LET s1 == Put(NewCursor(cap), U64ToLe(x.next))
    IN IF EventOverflowSize(x) > cap THEN [s1 EXCEPT !.panic = TRUE]
       ELSE Put(s1, x.data)

EventInternalSerialize(x, cap) ==
    LET s1 == Put(NewCursor(cap), U16ToLe(Len(x.keys)))
        s2 == PutU64s(s1, x.keys, Len(x.keys))
    IN PutU64s(s2, x.child_ids, Len(x.child_ids))

\* Mutant of PutFreeListLeafValue: root_id is written before the page ids.
PutFreeListLeafValueRootFirst(st, value) ==
    LET s1 == Put(st, U16ToLe(Len(value.page_ids)))
        s2 == Put(s1, U64ToLe(value.root_id))
    IN PutU64s(s2, value.page_ids, Len(value.page_ids))

PutFreeListLeafValue(st, value) ==
    LET s1 == Put(st, U16ToLe(Len(value.page_ids)))
        s2 == PutU64s(s1, value.page_ids, Len(value.page_ids))
    IN Put(s2, U64ToLe(value.root_id))

RECURSIVE PutFreeListLeafValues(_, _, _)
PutFreeListLeafValues(st, values, n) ==
    IF n = 0 THEN st
    ELSE PutFreeListLeafValue(PutFreeListLeafValues(st, values, n - 1), values[n])

FreeListLeafSerialize(x, cap) ==
    LET s1 == Put(NewCursor(cap), U16ToLe(Len(x.keys)))
        s2 == PutU64s(s1, x.keys, Len(x.keys))
    IN PutFreeListLeafValues(s2, x.values, Len(x.values))

FreeListInternalSerialize(x, cap) ==
    LET s1 == Put(NewCursor(cap), U16ToLe(Len(x.keys)))
        s2 == PutU64s(s1, x.keys, Len(x.keys))
        s3 == Put(s2, U16ToLe(Len(x.child_ids)))
    IN PutU64s(s3, x.child_ids, Len(x.child_ids))

FreeListTsnLeafSerialize(x, cap) ==
    LET s1 == Put(NewCursor(cap), U16ToLe(Len(x.page_ids)))
    IN PutU64s(s1, x.page_ids, Len(x.page_ids))

FreeListTsnInternalSerialize(x, cap) ==
    LET s1 == Put(NewCursor(cap), U16ToLe(Len(x.keys)))
        s2 == PutU64s(s1, x.keys, Len(x.keys))
        s3 == Put(s2, U16ToLe(Len(x.child_ids)))
    IN PutU64s(s3, x.child_ids, Len(x.child_ids))

\* serialize_into(&mut buf) on a buffer of cap bytes: the cursor it ends with.
serialize_into(x, cap) ==
    CASE x.kind = "EventLeaf" -> EventLeafSerialize(x, cap)
      [] x.kind = "EventInternal" -> EventInternalSerialize(x, cap)
      [] x.kind = "EventOverflow" -> EventOverflowSerialize(x, cap)
      [] x.kind = "FreeListLeaf" -> FreeListLeafSerialize(x, cap)
      [] x.kind = "FreeListInternal" -> FreeListInternalSerialize(x, cap)
      [] x.kind = "FreeListTsnLeaf" -> FreeListTsnLeafSerialize(x, cap)
      [] x.kind = "FreeListTsnInternal" -> FreeListTsnInternalSerialize(x, cap)

\* vec![0u8; n]
Zeros(n) == [i \in 1..n |-> 0]

\* ---------------------------------------------------------------- from_slice

\* Err(DCBError::DeserializationError(_))
DeErr == [tag |-> "Err", err |-> "DeserializationError"]

\* An index or a range past the end of the slice: the thread panics.
Panic == [tag |-> "Panic"]

\* Whether &s[a..b] is a range of s.
InBounds(s, a, b) == a <= b /\ b <= Len(s)

\* The u64s at off, off + 8, ..., n of them (the range is checked by the caller).
ReadU64s(s, off, n) == [i \in 1..n |-> ReadU64(s, off + (i - 1) * 8)]

\* Mutant of KeysTooShort: the key width is left out of the check.
KeysTooShortNoWidth(s, keys_len) == Len(s) < 2 + keys_len

\* `if slice.len() < 2 + keys_len * 8` of the leaf and internal decoders.
KeysTooShort(s, keys_len) == Len(s) < 2 + keys_len * 8

\* `if offset + n > slice.len()`, the check before each read of n bytes.
EndOfData(s, offset, n) == offset + n > Len(s)

\* Uuid::from_slice: Ok for exactly 16 bytes.
UuidFromSlice(b) == IF Len(b) = 16 THEN <<b>> ELSE <<>>

\* Every decoder below is written as a chain of operators, one per read of the
\* code: each makes the code's length check, then the read, and hands what it
\* read to the next.

\* tags.push(tag) in front of the tags the rest of the loop read.
ConsTag(tg, rest) ==
    IF rest.tag # "Ok" THEN rest
    ELSE [tag |-> "Ok", tags |-> <<tg>> \o rest.tags, off |-> rest.off]

RECURSIVE DecodeTags(_, _, _)
RECURSIVE DecodeTagBytes(_, _, _, _)

\* The tag loop of EventLeafNode::from_slice: n tags from offset on.
DecodeTags(s, offset, n) ==
    IF n = 0 THEN [tag |-> "Ok", tags |-> <<>>, off |-> offset]
    ELSE IF EndOfData(s, offset, 2) THEN DeErr
    ELSE IF ~InBounds(s, offset, offset + 2) THEN Panic
    ELSE DecodeTagBytes(s, offset + 2, ReadU16(s, offset), n)

\* The bytes of one tag, then the rest of the loop.
DecodeTagBytes(s, offset, tag_len, n) ==
    IF EndOfData(s, offset, tag_len) THEN DeErr
    ELSE IF ~InBounds(s, offset, offset + tag_len) THEN Panic
    ELSE IF ~Utf8Valid(Slice(s, offset, offset + tag_len)) THEN DeErr
    ELSE ConsTag(Slice(s, offset, offset + tag_len),
                 DecodeTags(s, offset + tag_len, n - 1))

\* match Uuid::from_slice(..) { Ok(uuid) => { offset += 16; Some(uuid) } Err => return Err }
UuidResult(u, offset) ==
    IF Len(u) = 0 THEN DeErr ELSE [tag |-> "Ok", uuid |-> u, off |-> offset + 16]

\* The optional UUID that ends a value.
DecodeUuid(s, offset, has_uuid) ==
    IF ~has_uuid THEN [tag |-> "Ok", uuid |-> <<>>, off |-> offset]
    ELSE IF EndOfData(s, offset, 16) THEN DeErr
    ELSE IF ~InBounds(s, offset, offset + 16) THEN Panic
    ELSE UuidResult(UuidFromSlice(Slice(s, offset, offset + 16)), offset)

\* values.push(EventValue::Inline(EventRecord { .. }))
InlineValue(event_type, data, tags, u) ==
    IF u.tag # "Ok" THEN u
    ELSE [tag |-> "Ok", off |-> u.off,
          value |-> [variant |-> "Inline", event_type |-> event_type,
                     data |-> data, tags |-> tags, uuid |-> u.uuid]]

InlineAfterTags(s, event_type, data, t, has_uuid) ==
    IF t.tag # "Ok" THEN t
    ELSE InlineValue(event_type, data, t.tags, DecodeUuid(s, t.off, has_uuid))

InlineAfterData(s, offset, event_type, data, has_uuid) ==
    IF EndOfData(s, offset, 2) THEN DeErr
    ELSE IF ~InBounds(s, offset, offset + 2) THEN Panic
    ELSE InlineAfterTags(s, event_type, data,
                         DecodeTags(s, offset + 2, ReadU16(s, offset)), has_uuid)

InlineData(s, offset, data_len, event_type, has_uuid) ==
    IF EndOfData(s, offset, data_len) THEN DeErr
    ELSE IF ~InBounds(s, offset, offset + data_len) THEN Panic
    ELSE InlineAfterData(s, offset + data_len, event_type,
                         Slice(s, offset, offset + data_len), has_uuid)

\* `if !overflow { ... }`: data_len u16, data, tags, uuid.
DecodeInline(s, offset, event_type, has_uuid) ==
    IF EndOfData(s, offset, 2) THEN DeErr
    ELSE IF ~InBounds(s, offset, offset + 2) THEN Panic
    ELSE InlineData(s, offset + 2, ReadU16(s, offset), event_type, has_uuid)

\* values.push(EventValue::Overflow { .. })
OverflowValue(event_type, data_len, tags, root_id, u) ==
    IF u.tag # "Ok" THEN u
    ELSE [tag |-> "Ok", off |-> u.off,
          value |-> [variant |-> "Overflow", event_type |-> event_type,
                     data_len |-> data_len, tags |-> tags, root_id |-> root_id,
                     uuid |-> u.uuid]]

OverflowAfterTags(s, event_type, data_len, t, has_uuid) ==
    IF t.tag # "Ok" THEN t
    ELSE IF EndOfData(s, t.off, 8) THEN DeErr
    ELSE IF ~InBounds(s, t.off, t.off + 8) THEN Panic
    ELSE OverflowValue(event_type, data_len, t.tags, ReadU64(s, t.off),
                       DecodeUuid(s, t.off + 8, has_uuid))

OverflowAfterDataLen(s, offset, event_type, data_len, has_uuid) ==
    IF EndOfData(s, offset, 2) THEN DeErr
    ELSE IF ~InBounds(s, offset, offset + 2) THEN Panic
    ELSE OverflowAfterTags(s, event_type, data_len,
                           DecodeTags(s, offset + 2, ReadU16(s, offset)), has_uuid)

\* `else { ... }`: data_len u64, tags, root_id, uuid.
DecodeOverflow(s, offset, event_type, has_uuid) ==
    IF EndOfData(s, offset, 8) THEN DeErr
    ELSE IF ~InBounds(s, offset, offset + 8) THEN Panic
    ELSE OverflowAfterDataLen(s, offset + 8, event_type, ReadU64(s, offset), has_uuid)

\* The decoded value with the flags byte it was read under.
WithBits(bits, v) ==
    IF v.tag # "Ok" THEN v
    ELSE [tag |-> "Ok", off |-> v.off, value |-> v.value, bits |-> bits]

\* let overflow = flags.contains(OVERFLOW); let has_uuid = flags.contains(HAS_UUID);
ValueBody(s, offset, flags, event_type) ==
    IF ~Contains(flags, OVERFLOW)
    THEN DecodeInline(s, offset, event_type, Contains(flags, HAS_UUID))
    ELSE DecodeOverflow(s, offset, event_type, Contains(flags, HAS_UUID))

EventTypeBytes(s, offset, event_type_len, bits, flags) ==
    IF EndOfData(s, offset, event_type_len) THEN DeErr
    ELSE IF ~InBounds(s, offset, offset + event_type_len) THEN Panic
    ELSE IF ~Utf8Valid(Slice(s, offset, offset + event_type_len)) THEN DeErr
    ELSE WithBits(bits, ValueBody(s, offset + event_type_len, flags,
                                  Slice(s, offset, offset + event_type_len)))

\* EventValueFlags::from_bits(slice[offset]).ok_or(..)?, then the event type.
AfterFlags(s, offset, bits, flags) ==
    IF Len(flags) = 0 THEN DeErr
    ELSE IF EndOfData(s, offset, 2) THEN DeErr
    ELSE IF ~InBounds(s, offset, offset + 2) THEN Panic
    ELSE EventTypeBytes(s, offset + 2, ReadU16(s, offset), bits, flags[1])

\* One pass of the value loop of EventLeafNode::from_slice; bits is the flags
\* byte as it stands in the slice.
DecodeEventValue(s, offset) ==
    IF EndOfData(s, offset, 1) THEN DeErr
    ELSE IF ~InBounds(s, offset, offset + 1) THEN Panic
    ELSE AfterFlags(s, offset + 1, s[offset + 1], FromBits(s[offset + 1]))

\* values.push(value) in front of the values the rest of the loop read.
ConsEventValue(v, rest) ==
    IF rest.tag # "Ok" THEN rest
    ELSE [tag |-> "Ok", values |-> <<v.value>> \o rest.values,
          bits |-> <<v.bits>> \o rest.bits, off |-> rest.off]

RECURSIVE DecodeEventValues(_, _, _)
RECURSIVE EventValuesAfter(_, _, _)

\* `for _ in 0..keys_len`: n values from offset on; bits lists the flags bytes read.
DecodeEventValues(s, offset, n) ==
    IF n = 0 THEN [tag |-> "Ok", values |-> <<>>, bits |-> <<>>, off |-> offset]
    ELSE EventValuesAfter(s, DecodeEventValue(s, offset), n)

EventValuesAfter(s, v, n) ==
    IF v.tag # "Ok" THEN v
    ELSE ConsEventValue(v, DecodeEventValues(s, v.off, n - 1))

\* Ok(EventLeafNode { keys, values })
EventLeafOk(keys, v) ==
    IF v.tag # "Ok" THEN v
    ELSE [tag |-> "Ok", used |-> v.off, bits |-> v.bits,
          node |-> [kind |-> "EventLeaf", keys |-> keys, values |-> v.values]]

EventLeafAfterLen(s, keys_len) ==
    IF KeysTooShort(s, keys_len) THEN DeErr
    ELSE IF ~InBounds(s, 2, 2 + keys_len * 8) THEN Panic
    ELSE EventLeafOk(ReadU64s(s, 2, keys_len),
                     DecodeEventValues(s, 2 + keys_len * 8, keys_len))

EventLeafFromSlice(s) ==
    IF Len(s) < 2 THEN DeErr ELSE EventLeafAfterLen(s, ReadU16(s, 0))

\* Mutant of OverflowTooShort: a node with no data bytes is refused.
OverflowTooShortOrEmpty(s) == Len(s) <= 8

\* slice.len() < 8 is the only check: the data is the rest of the slice.
OverflowTooShort(s) == Len(s) < 8

EventOverflowFromSlice(s) ==
    IF OverflowTooShort(s) THEN DeErr
    ELSE IF ~InBounds(s, 0, 8) THEN Panic
    ELSE [tag |-> "Ok", used |-> Len(s),
          node |-> [kind |-> "EventOverflow", next |-> ReadU64(s, 0),
                    data |-> Slice(s, 8, Len(s))]]

\* Mutant of DerivedChildIdsLen: as many children as keys.
DerivedChildIdsLenNoPlusOne(keys_len) == keys_len

\* "Derive child_ids_len from keys_len (always keys_len + 1)".
DerivedChildIdsLen(keys_len) == keys_len + 1

\* Mutant of EventInternalChildren: the length check leaves out the child ids.
EventInternalChildrenKeysOnly(s, keys_len, offset, child_ids_len) ==
    IF Len(s) < offset THEN DeErr
    ELSE [tag |-> "Ok", used |-> Len(s),
          node |-> [kind |-> "EventInternal",
                    keys |-> ReadU64s(s, 2, keys_len),
                    child_ids |-> ReadU64s(s, offset, (Len(s) - offset) \div 8)]]

EventInternalChildren(s, keys_len, offset, child_ids_len) ==
    IF Len(s) < offset + child_ids_len * 8 THEN DeErr
    ELSE IF ~InBounds(s, offset, offset + child_ids_len * 8) THEN Panic
    ELSE [tag |-> "Ok", used |-> offset + child_ids_len * 8,
          node |-> [kind |-> "EventInternal",
                    keys |-> ReadU64s(s, 2, keys_len),
                    child_ids |-> ReadU64s(s, offset, child_ids_len)]]

EventInternalAfterLen(s, keys_len) ==
    IF KeysTooShort(s, keys_len) THEN DeErr
    ELSE IF ~InBounds(s, 2, 2 + keys_len * 8) THEN Panic
    ELSE EventInternalChildren(s, keys_len, 2 + keys_len * 8,
                               DerivedChildIdsLen(keys_len))

EventInternalFromSlice(s) ==
    IF Len(s) < 2 THEN DeErr ELSE EventInternalAfterLen(s, ReadU16(s, 0))

\* The root_id that ends a free-list leaf value.
FreeListLeafRootId(s, offset, page_ids) ==
    IF EndOfData(s, offset, 8) THEN DeErr
    ELSE IF ~InBounds(s, offset, offset + 8) THEN Panic
    ELSE [tag |-> "Ok", off |-> offset + 8,
          value |-> [page_ids |-> page_ids, root_id |-> ReadU64(s, offset)]]

FreeListLeafPageIds(s, offset, page_ids_len) ==
    IF EndOfData(s, offset, page_ids_len * 8) THEN DeErr
    ELSE IF ~InBounds(s, offset, offset + page_ids_len * 8) THEN Panic
    ELSE FreeListLeafRootId(s, offset + page_ids_len * 8,
                            ReadU64s(s, offset, page_ids_len))

\* One pass of the value loop of FreeListLeafNode::from_slice.
DecodeFreeListLeafValue(s, offset) ==
    IF EndOfData(s, offset, 2) THEN DeErr
    ELSE IF ~InBounds(s, offset, offset + 2) THEN Panic
    ELSE FreeListLeafPageIds(s, offset + 2, ReadU16(s, offset))

ConsFreeListLeafValue(v, rest) ==
    IF rest.tag # "Ok" THEN rest
    ELSE [tag |-> "Ok", values |-> <<v.value>> \o rest.values, off |-> rest.off]

RECURSIVE DecodeFreeListLeafValues(_, _, _)
RECURSIVE FreeListLeafValuesAfter(_, _, _)

DecodeFreeListLeafValues(s, offset, n) ==
    IF n = 0 THEN [tag |-> "Ok", values |-> <<>>, off |-> offset]
    ELSE FreeListLeafValuesAfter(s, DecodeFreeListLeafValue(s, offset), n)

FreeListLeafValuesAfter(s, v, n) ==
    IF v.tag # "Ok" THEN v
    ELSE ConsFreeListLeafValue(v, DecodeFreeListLeafValues(s, v.off, n - 1))

\* Ok(FreeListLeafNode { keys, values })
FreeListLeafOk(keys, v) ==
    IF v.tag # "Ok" THEN v
    ELSE [tag |-> "Ok", used |-> v.off,
          node |-> [kind |-> "FreeListLeaf", keys |-> keys, values |-> v.values]]

FreeListLeafAfterLen(s, keys_len) ==
    IF KeysTooShort(s, keys_len) THEN DeErr
    ELSE IF ~InBounds(s, 2, 2 + keys_len * 8) THEN Panic
    ELSE FreeListLeafOk(ReadU64s(s, 2, keys_len),
                        DecodeFreeListLeafValues(s, 2 + keys_len * 8, keys_len))

FreeListLeafFromSlice(s) ==
    IF Len(s) < 2 THEN DeErr ELSE FreeListLeafAfterLen(s, ReadU16(s, 0))

FreeListInternalChildren(s, keys_len, offset, child_ids_len) ==
    IF Len(s) < offset + 2 + child_ids_len * 8 THEN DeErr
    ELSE IF ~InBounds(s, offset + 2, offset + 2 + child_ids_len * 8) THEN Panic
    ELSE [tag |-> "Ok", used |-> offset + 2 + child_ids_len * 8,
          node |-> [kind |-> "FreeListInternal",
                    keys |-> ReadU64s(s, 2, keys_len),
                    child_ids |-> ReadU64s(s, offset + 2, child_ids_len)]]

FreeListInternalChildLen(s, keys_len, offset) ==
    IF EndOfData(s, offset, 2) THEN DeErr
    ELSE IF ~InBounds(s, offset, offset + 2) THEN Panic
    ELSE FreeListInternalChildren(s, keys_len, offset, ReadU16(s, offset))

FreeListInternalAfterLen(s, keys_len) ==
    IF KeysTooShort(s, keys_len) THEN DeErr
    ELSE IF ~InBounds(s, 2, 2 + keys_len * 8) THEN Panic
    ELSE FreeListInternalChildLen(s, keys_len, 2 + keys_len * 8)

FreeListInternalFromSlice(s) ==
    IF Len(s) < 2 THEN DeErr ELSE FreeListInternalAfterLen(s, ReadU16(s, 0))

\* Mutant of FreeListTsnLeafAfterLen: an input longer than the node is rejected.
FreeListTsnLeafExactLen(s, plen) ==
    IF Len(s) # 2 + plen * 8 THEN DeErr
    ELSE [tag |-> "Ok", used |-> 2 + plen * 8,
          node |-> [kind |-> "FreeListTsnLeaf", page_ids |-> ReadU64s(s, 2, plen)]]

FreeListTsnLeafAfterLen(s, plen) ==
    IF Len(s) < 2 + plen * 8 THEN DeErr
    ELSE IF ~InBounds(s, 2, 2 + plen * 8) THEN Panic
    ELSE [tag |-> "Ok", used |-> 2 + plen * 8,
          node |-> [kind |-> "FreeListTsnLeaf", page_ids |-> ReadU64s(s, 2, plen)]]

FreeListTsnLeafFromSlice(s) ==
    IF Len(s) < 2 THEN DeErr ELSE FreeListTsnLeafAfterLen(s, ReadU16(s, 0))

\* `if slice.len() < 2 + klen * 8 + 2`: the keys and the child count are there.
TsnInternalKeysTooShort(s, klen) == Len(s) < 2 + klen * 8 + 2

\* Mutant of TsnInternalChildrenTooShort: the offset is left out of the check.
TsnInternalChildrenTooShortNoOffset(s, offset, clen) == Len(s) < clen * 8

\* `if slice.len() < offset + clen * 8`: the child ids are there.
TsnInternalChildrenTooShort(s, offset, clen) == Len(s) < offset + clen * 8

FreeListTsnInternalChildren(s, klen, offset, clen) ==
    IF TsnInternalChildrenTooShort(s, offset, clen) THEN DeErr
    ELSE IF ~InBounds(s, offset, offset + clen * 8) THEN Panic
    ELSE [tag |-> "Ok", used |-> offset + clen * 8,
          node |-> [kind |-> "FreeListTsnInternal",
                    keys |-> ReadU64s(s, 2, klen),
                    child_ids |-> ReadU64s(s, offset, clen)]]

FreeListTsnInternalAfterLen(s, klen) ==
    IF TsnInternalKeysTooShort(s, klen) THEN DeErr
    ELSE IF ~InBounds(s, 2, 2 + klen * 8 + 2) THEN Panic
    ELSE FreeListTsnInternalChildren(s, klen, 2 + klen * 8 + 2,
                                     ReadU16(s, 2 + klen * 8))

FreeListTsnInternalFromSlice(s) ==
    IF Len(s) < 2 THEN DeErr ELSE FreeListTsnInternalAfterLen(s, ReadU16(s, 0))

\* N::from_slice(s) for the node type named kind.
from_slice(kind, s) ==
    CASE kind = "EventLeaf" -> EventLeafFromSlice(s)
      [] kind = "EventInternal" -> EventInternalFromSlice(s)
      [] kind = "EventOverflow" -> EventOverflowFromSlice(s)
      [] kind = "FreeListLeaf" -> FreeListLeafFromSlice(s)
      [] kind = "FreeListInternal" -> FreeListInternalFromSlice(s)
      [] kind = "FreeListTsnLeaf" -> FreeListTsnLeafFromSlice(s)
      [] kind = "FreeListTsnInternal" -> FreeListTsnInternalFromSlice(s)

\* ------------------------------------------------------------ node values

\* Positions / TSNs, ascending: 0, 1000 and 2^63 + 1.
KeyList == <<U64(0), U64(1000), <<1, 0, 0, 32768>>>>

\* The elements of the index set S in ascending order.
RECURSIVE Ascending(_)
Ascending(S) ==
    IF S = {} THEN <<>>
    ELSE LET m == CHOOSE x \in S : \A y \in S : x <= y
         IN <<m>> \o Ascending(S \ {m})

\* The strictly ascending key sequences of length n.
AscKeys(n) ==
    { [i \in 1..n |-> KeyList[Ascending(S)[i]]] :
        S \in {T \in SUBSET (1..Len(KeyList)) : Cardinality(T) = n} }

\* Page ids: 7 and one with every limb in use.
PageVals == {U64(7), <<513, 4, 0, 65280>>}

UuidA == [i \in 1..16 |-> (i * 37) % 256]

\* Values of each combination of variant and uuid: "e", "", "ev" and "e-acute"
\* as event types, empty and non-empty data and tag lists, an empty tag.
EventValues ==
    { [variant |-> "Inline", event_type |-> <<101>>, data |-> <<1, 2, 3>>,
       tags |-> << <<116>> >>, uuid |-> <<>>],
      [variant |-> "Inline", event_type |-> <<>>, data |-> <<>>,
       tags |-> <<>>, uuid |-> <<UuidA>>],
      [variant |-> "Overflow", event_type |-> <<101, 118>>, data_len |-> U64(131072),
       tags |-> << <<97>>, <<>> >>, root_id |-> U64(7), uuid |-> <<>>],
      [variant |-> "Overflow", event_type |-> <<195, 169>>,
       data_len |-> <<0, 0, 1, 0>>, tags |-> <<>>, root_id |-> <<513, 4, 0, 65280>>,
       uuid |-> <<UuidA>>],
      [variant |-> "Inline", event_type |-> <<101, 118>>, data |-> <<171>>,
       tags |-> << <<120>>, <<195, 169, 121>> >>, uuid |-> <<UuidA>>],
      [variant |-> "Overflow", event_type |-> <<>>, data_len |-> U64(0),
       tags |-> <<>>, root_id |-> PageIdZero, uuid |-> <<>>] }

FreeListLeafValues ==
    { [page_ids |-> <<U64(7)>>, root_id |-> PageIdZero],
      [page_ids |-> <<>>, root_id |-> U64(9)],
      [page_ids |-> <<U64(7), <<513, 4, 0, 65280>>>>, root_id |-> PageIdZero] }

EventLeafNodes ==
    UNION { { [kind |-> "EventLeaf", keys |-> k, values |-> v] :
                k \in AscKeys(n), v \in [1..n -> EventValues] } : n \in 0..MaxKeys }

EventInternalNodes ==
    UNION { { [kind |-> "EventInternal", keys |-> k, child_ids |-> c] :
                k \in AscKeys(n), c \in [1..(n + 1) -> PageVals] } : n \in 0..MaxKeys }

EventOverflowNodes ==
    { [kind |-> "EventOverflow", next |-> nx, data |-> d] :
        nx \in {PageIdZero, U64(77)}, d \in {<<>>, <<0>>, <<7, 8, 9, 10>>} }

FreeListLeafNodes ==
    UNION { { [kind |-> "FreeListLeaf", keys |-> k, values |-> v] :
                k \in AscKeys(n), v \in [1..n -> FreeListLeafValues] } : n \in 0..MaxKeys }

FreeListInternalNodes ==
    UNION { { [kind |-> "FreeListInternal", keys |-> k, child_ids |-> c] :
                k \in AscKeys(n), c \in [1..(n + 1) -> PageVals] } : n \in 0..MaxKeys }

FreeListTsnLeafNodes ==
    UNION { { [kind |-> "FreeListTsnLeaf", page_ids |-> k] : k \in AscKeys(n) } :
            n \in 0..MaxKeys }

FreeListTsnInternalNodes ==
    UNION { { [kind |-> "FreeListTsnInternal", keys |-> k, child_ids |-> c] :
                k \in AscKeys(n), c \in [1..(n + 1) -> PageVals] } : n \in 0..MaxKeys }

\* Values the public fields allow and the tree code never builds: the two
\* sequences of a node disagree in length.
IllShapedNodes ==
    { [kind |-> "EventLeaf", keys |-> <<U64(0)>>, values |-> <<>>],
      [kind |-> "EventLeaf", keys |-> <<>>,
       values |-> <<[variant |-> "Inline", event_type |-> <<101>>, data |-> <<1, 2, 3>>,
                     tags |-> << <<116>> >>, uuid |-> <<>>]>>],
      [kind |-> "EventInternal", keys |-> <<>>, child_ids |-> <<>>],
      [kind |-> "EventInternal", keys |-> <<U64(0)>>, child_ids |-> <<U64(7)>>],
      [kind |-> "EventInternal", keys |-> <<>>, child_ids |-> <<U64(7), U64(7)>>],
      [kind |-> "FreeListLeaf", keys |-> <<U64(0)>>, values |-> <<>>],
      [kind |-> "FreeListLeaf", keys |-> <<>>,
       values |-> <<[page_ids |-> <<U64(7)>>, root_id |-> PageIdZero]>>],
      [kind |-> "FreeListInternal", keys |-> <<>>, child_ids |-> <<>>],
      [kind |-> "FreeListInternal", keys |-> <<U64(0)>>, child_ids |-> <<U64(7)>>],
      [kind |-> "FreeListInternal", keys |-> <<>>, child_ids |-> <<U64(7), U64(7)>>],
      [kind |-> "FreeListTsnInternal", keys |-> <<>>, child_ids |-> <<>>],
      [kind |-> "FreeListTsnInternal", keys |-> <<U64(7)>>, child_ids |-> <<>>] }

Nodes ==
    EventLeafNodes \cup EventInternalNodes \cup EventOverflowNodes
    \cup FreeListLeafNodes \cup FreeListInternalNodes \cup FreeListTsnLeafNodes
    \cup FreeListTsnInternalNodes \cup IllShapedNodes

Kinds ==
    {"EventLeaf", "EventInternal", "EventOverflow", "FreeListLeaf",
     "FreeListInternal", "FreeListTsnLeaf", "FreeListTsnInternal"}

\* Bytes of the raw inputs and of a corrupted byte.
RawBytes == {0, 1, 2, 255}
FlipBytes == {0, 1, 2, 3, 4, 128, 255}

RECURSIVE SeqsUpTo(_, _)
SeqsUpTo(S, n) ==
    IF n = 0 THEN {<<>>}
    ELSE LET shorter == SeqsUpTo(S, n - 1)
         IN shorter \cup { Append(q, b) : q \in {r \in shorter : Len(r) = n - 1}, b \in S }

RawBufs == SeqsUpTo(RawBytes, MaxRaw)

\* ------------------------------------------------------------------- state

VARIABLES
    node,     \* the node value being serialized (for a raw input: only its kind)
    buf,      \* the buffer: serialize_into's output, or what became of it
    ser,      \* how serialize_into ended: bytes written, or a panic
    how,      \* what buf is: "none", "exact", "truncated", "flipped", "raw"
    pc,       \* "new", "buf", "decoded"
    result,   \* what from_slice returned on buf
    disk,     \* durable pages: PageID -> node, for the pages ever flushed
    cache,    \* pages written and not yet fsynced: PageID -> node
    sb,       \* the durable superblock
    sbCache,  \* a superblock written and not yet fsynced (at most one)
    committed, \* the in-memory committed snapshot
    w,        \* the Writer and where its commit stands
    wcount,   \* the number of Writers that exist
    readers,  \* the snapshots held by open readers
    history,  \* TSN -> the events of the snapshot installed at that TSN
    faults    \* the number of failed commits and crashes so far

codecVars == <<node, buf, ser, how, pc, result>>
mvccVars == <<disk, cache, sb, sbCache, committed, w, wcount, readers, history, faults>>
vars == <<node, buf, ser, how, pc, result,
          disk, cache, sb, sbCache, committed, w, wcount, readers, history, faults>>

\* The superblock of a database just created: TSN 0, no roots, page 0 taken by
\* the superblock itself.
InitSb ==
    [tsn |-> 0, event_root |-> 0, free_root |-> 0, next_page_id |-> 1,
     oldest_live_reader_tsn |-> 0]

NoWriter == [st |-> "none"]

\* A database just created, with no writer and no reader.
MvccInit ==
    /\ disk = <<>>
    /\ cache = <<>>
    /\ sb = InitSb
    /\ sbCache = <<>>
    /\ committed = InitSb
    /\ w = NoWriter
    /\ wcount = 0
    /\ readers = {}
    /\ history = (0 :> [events |-> <<>>, pages |-> <<>>,
                        free |-> [kind |-> "FreeListLeaf", keys |-> <<>>, values |-> <<>>],
                        by |-> "create"])
    /\ faults = 0

NoResult == [tag |-> "None"]

Init ==
    /\ MvccInit
    /\ result = NoResult
    /\ \/ /\ node \in Nodes
          /\ buf = <<>>
          /\ ser = [tag |-> "None"]
          /\ how = "none"
          /\ pc = "new"
       \/ /\ node \in {[kind |-> k] : k \in Kinds}
          /\ buf \in RawBufs
          /\ ser = [tag |-> "None"]
          /\ how = "raw"
          /\ pc = "buf"

\* let mut buf = vec![0u8; x.calc_serialized_size()]; x.serialize_into(&mut buf)
Serialize ==
    /\ pc = "new"
    /\ LET cap == calc_serialized_size(node)
           st == serialize_into(node, cap)
       IN /\ buf' = st.out \o Zeros(cap - Len(st.out))
          /\ ser' = IF st.panic THEN [tag |-> "Panic", cap |-> cap]
                    ELSE [tag |-> "Ok", written |-> Len(st.out), cap |-> cap]
    /\ how' = "exact"
    /\ pc' = "buf"
    /\ UNCHANGED <<node, result>>
    /\ UNCHANGED mvccVars

\* The buffer loses its last n bytes.
Truncate ==
    /\ pc = "buf" /\ how = "exact"
    /\ \E n \in 1..Len(buf) : buf' = SubSeq(buf, 1, Len(buf) - n)
    /\ how' = "truncated"
    /\ UNCHANGED <<node, ser, pc, result>>
    /\ UNCHANGED mvccVars

\* One byte of the buffer changes to another value.
FlipByte ==
    /\ pc = "buf" /\ how = "exact"
    /\ \E i \in 1..Len(buf) : \E b \in FlipBytes \ {buf[i]} :
          buf' = [buf EXCEPT ![i] = b]
    /\ how' = "flipped"
    /\ UNCHANGED <<node, ser, pc, result>>
    /\ UNCHANGED mvccVars

\* The longest padding after a serialized node.
MaxPad == 2

\* The paddings: zeros, as in a page, and other bytes.
Paddings == {p \in SeqsUpTo({0, 255}, MaxPad) : Len(p) >= 1}

\* The buffer is followed by trailing bytes, as a node stored in a page is.
Pad ==
    /\ pc = "buf" /\ how = "exact"
    /\ \E p \in Paddings : buf' = buf \o p
    /\ how' = "padded"
    /\ UNCHANGED <<node, ser, pc, result>>
    /\ UNCHANGED mvccVars

\* N::from_slice(&buf)
Deserialize ==
    /\ pc = "buf"
    /\ result' = from_slice(node.kind, buf)
    /\ pc' = "decoded"
    /\ UNCHANGED <<node, buf, ser, how>>
    /\ UNCHANGED mvccVars

Next == Serialize \/ Truncate \/ FlipByte \/ Pad \/ Deserialize

Spec == Init /\ [][Next]_vars

\* A byte string of 65536 bytes b, one more than a u16 length prefix can say.
WideBytes(b) == [i \in 1..65536 |-> b]

\* Event leaves with one inline value that has an event type, a data field or a
\* tag of 65536 bytes: values the node types allow, Vec and String having usize
\* lengths.
WideNodes ==
    { [kind |-> "EventLeaf", keys |-> <<U64(0)>>,
       values |-> <<[variant |-> "Inline", event_type |-> e, data |-> d,
                     tags |-> <<g>>, uuid |-> <<>>]>>] :
        e \in {<<101>>, WideBytes(101)}, d \in {<<1, 2, 3>>, WideBytes(0)},
        g \in {<<116>>, WideBytes(116)} }

\* A node of any size is constructed and serialized into a buffer of its
\* calc_serialized_size.
WideInit ==
    /\ MvccInit
    /\ result = NoResult
    /\ node \in Nodes \cup WideNodes
    /\ buf = <<>>
    /\ ser = [tag |-> "None"]
    /\ how = "none"
    /\ pc = "new"

WideSpec == WideInit /\ [][Serialize]_vars

\* ------------------------------------------------------------ node helpers

\* a < b for two u64s (limb 4 is the most significant).
U64Less(a, b) ==
    \/ a[4] < b[4]
    \/ (a[4] = b[4] /\ a[3] < b[3])
    \/ (a[4] = b[4] /\ a[3] = b[3] /\ a[2] < b[2])
    \/ (a[4] = b[4] /\ a[3] = b[3] /\ a[2] = b[2] /\ a[1] < b[1])

\* s without its last element (Vec::pop on a non-empty vector).
Front(s) == SubSeq(s, 1, Len(s) - 1)

\* A usize subtraction a - b.  With a < b a build with overflow checks panics
\* ("attempt to subtract with overflow") and a build without them wraps to
\* 2^64 + (a - b), which the model keeps as the negative number a - b: it is
\* larger than the length of any vector.
UsizeSub(a, b) == a - b

\* Whether the usize idx (see UsizeSub) is below len.
IndexBelow(idx, len) == 0 <= idx /\ idx < len

\* Mutant of pop_last_key_and_value: the last key is returned with the first
\* value.
PopLastFirstValue(x) ==
    IF Len(x.keys) = 0 \/ Len(x.values) = 0 THEN [tag |-> "Panic", node |-> x]
    ELSE [tag |-> "Ok",
          ret |-> <<x.keys[Len(x.keys)], x.values[1]>>,
          node |-> [x EXCEPT !.keys = Front(x.keys), !.values = Front(x.values)]]

\* Mutant of pop_last_key_and_value: the last pair is returned but stays.
PopLastKeepsPair(x) ==
    IF Len(x.keys) = 0 \/ Len(x.values) = 0 THEN [tag |-> "Panic", node |-> x]
    ELSE [tag |-> "Ok",
          ret |-> <<x.keys[Len(x.keys)], x.values[Len(x.values)]>>,
          node |-> x]

\* pop_last_key_and_value of EventLeafNode and FreeListLeafNode:
\* keys.pop().expect(..), then values.pop().expect(..).
pop_last_key_and_value(x) ==
    IF Len(x.keys) = 0 THEN [tag |-> "Panic", node |-> x]
    ELSE IF Len(x.values) = 0
    THEN [tag |-> "Panic", node |-> [x EXCEPT !.keys = Front(x.keys)]]
    ELSE [tag |-> "Ok",
          ret |-> <<x.keys[Len(x.keys)], x.values[Len(x.values)]>>,
          node |-> [x EXCEPT !.keys = Front(x.keys), !.values = Front(x.values)]]

\* Mutant of replace_last_child_id: the last child id is not compared with old_id.
ReplaceLastChildIdUnchecked(x, old_id, new_id, checks) ==
    IF Len(x.child_ids) = 0 THEN [tag |-> "Panic", node |-> x]
    ELSE [tag |-> "Ok", ret |-> <<>>,
          node |-> [x EXCEPT !.child_ids[Len(x.child_ids)] = new_id]]

\* Mutant of replace_last_child_id: the new id is not stored.
ReplaceLastChildIdForgets(x, old_id, new_id, checks) ==
    IF Len(x.child_ids) = 0 THEN [tag |-> "Panic", node |-> x]
    ELSE IF x.child_ids[Len(x.child_ids)] = old_id
    THEN [tag |-> "Ok", ret |-> <<>>, node |-> x]
    ELSE [tag |-> "Err", err |-> "DatabaseCorrupted", node |-> x]

\* replace_last_child_id of EventInternalNode and FreeListInternalNode.
\* checks: the build has overflow checks (debug) or not (release).
replace_last_child_id(x, old_id, new_id, checks) ==
    LET last_idx == UsizeSub(Len(x.child_ids), 1)
    IN IF checks /\ last_idx < 0 THEN [tag |-> "Panic", node |-> x]
       ELSE IF ~IndexBelow(last_idx, Len(x.child_ids)) THEN [tag |-> "Panic", node |-> x]
       ELSE IF x.child_ids[last_idx + 1] = old_id
       THEN [tag |-> "Ok", ret |-> <<>>,
             node |-> [x EXCEPT !.child_ids[last_idx + 1] = new_id]]
       ELSE [tag |-> "Err", err |-> "DatabaseCorrupted", node |-> x]

\* Mutant of append_promoted_key_and_page_id: the page id is not pushed.
AppendPromotedKeyOnly(x, promoted_key, promoted_page_id) ==
    [tag |-> "Ok", ret |-> <<>>,
     node |-> [x EXCEPT !.keys = Append(x.keys, promoted_key)]]

\* append_promoted_key_and_page_id of the two internal node types.
append_promoted_key_and_page_id(x, promoted_key, promoted_page_id) ==
    [tag |-> "Ok", ret |-> <<>>,
     node |-> [x EXCEPT !.keys = Append(x.keys, promoted_key),
                        !.child_ids = Append(x.child_ids, promoted_page_id)]]

\* The two Vec::split_off calls that end split_off: keys is the key vector after
\* keys.remove(middle_idx).
SplitOffTail(x, middle_idx, promoted_key, keys) ==
    IF middle_idx + 1 > Len(x.child_ids)
    THEN [tag |-> "Panic", node |-> [x EXCEPT !.keys = SubSeq(keys, 1, middle_idx)]]
    ELSE [tag |-> "Ok",
          ret |-> <<promoted_key,
                    SubSeq(keys, middle_idx + 1, Len(keys)),
                    SubSeq(x.child_ids, middle_idx + 2, Len(x.child_ids))>>,
          node |-> [x EXCEPT !.keys = SubSeq(keys, 1, middle_idx),
                             !.child_ids = SubSeq(x.child_ids, 1, middle_idx + 1)]]

\* Mutant of split_off: a centred split, middle_idx = keys.len() / 2.
SplitOffCentred(x, checks) ==
    IF Len(x.keys) = 0 THEN [tag |-> "Panic", node |-> x]
    ELSE SplitOffTail(x, Len(x.keys) \div 2, x.keys[(Len(x.keys) \div 2) + 1],
                      SubSeq(x.keys, 1, Len(x.keys) \div 2)
                      \o SubSeq(x.keys, (Len(x.keys) \div 2) + 2, Len(x.keys)))

\* split_off of EventInternalNode and FreeListInternalNode:
\* middle_idx = keys.len() - 2; keys.remove(middle_idx) panics unless
\* middle_idx < keys.len().
split_off(x, checks) ==
    LET middle_idx == UsizeSub(Len(x.keys), 2)
    IN IF checks /\ middle_idx < 0 THEN [tag |-> "Panic", node |-> x]
       ELSE IF ~IndexBelow(middle_idx, Len(x.keys)) THEN [tag |-> "Panic", node |-> x]
       ELSE SplitOffTail(x, middle_idx, x.keys[middle_idx + 1],
                         SubSeq(x.keys, 1, middle_idx)
                         \o SubSeq(x.keys, middle_idx + 2, Len(x.keys)))

\* Mutant of would_fit_new_tsn_and_page_id: the 2 bytes of the list length are
\* left out.
WouldFitNewTsnNoLen(x, max_node_size) ==
    calc_serialized_size(x) + 8 + 8 + 8 <= max_node_size

\* FreeListLeafNode::would_fit_new_tsn_and_page_id: the new pair adds
\* 8 (key) + 2 (len) + 8 (one page_id) + 8 (root_id) bytes.
would_fit_new_tsn_and_page_id(x, max_node_size) ==
    calc_serialized_size(x) + 8 + 2 + 8 + 8 <= max_node_size

\* FreeListLeafNode::push_new_key_and_value.
push_new_key_and_value(x, tsn, page_id) ==
    [tag |-> "Ok", ret |-> <<>>,
     node |-> [x EXCEPT !.keys = Append(x.keys, tsn),
                        !.values = Append(x.values,
                                          [page_ids |-> <<page_id>>,
                                           root_id |-> PageIdZero])]]

\* Mutant of would_fit_new_page_id: the 8 bytes of the new PageID are left out.
WouldFitNewPageIdAtLimit(x, max_node_size) ==
    calc_serialized_size(x) <= max_node_size

\* would_fit_new_page_id of FreeListLeafNode and FreeListTsnLeafNode: one more
\* PageID adds 8 bytes.
would_fit_new_page_id(x, max_node_size) ==
    calc_serialized_size(x) + 8 <= max_node_size

\* Mutant of push_new_page_id: the page id goes to the last entry.
PushNewPageIdLast(x, idx, page_id) ==
    IF ~IndexBelow(idx, Len(x.values)) THEN [tag |-> "Panic", node |-> x]
    ELSE [tag |-> "Ok", ret |-> <<>>,
          node |-> [x EXCEPT !.values[Len(x.values)].page_ids =
                                 Append(x.values[Len(x.values)].page_ids, page_id)]]

\* FreeListLeafNode::push_new_page_id: self.values[idx] panics unless
\* idx < values.len().
push_new_page_id(x, idx, page_id) ==
    IF ~IndexBelow(idx, Len(x.values)) THEN [tag |-> "Panic", node |-> x]
    ELSE [tag |-> "Ok", ret |-> <<>>,
          node |-> [x EXCEPT !.values[idx + 1].page_ids =
                                 Append(x.values[idx + 1].page_ids, page_id)]]

\* FreeListTsnInternalNode::would_fit_new_key_and_child: a key and a child id
\* add 16 bytes.
would_fit_new_key_and_child(x, max_node_size) ==
    calc_serialized_size(x) + 16 <= max_node_size

LeafKinds == {"EventLeaf", "FreeListLeaf"}
FitKinds == {"FreeListLeaf", "FreeListTsnLeaf", "FreeListTsnInternal"}
InternalKinds == {"EventInternal", "FreeListInternal"}

\* The nodes the helpers start from: every generated leaf and internal node of
\* the two trees and of the TSN subtree, the empty and the ill-shaped ones among
\* them.
HelperNodes == {x \in Nodes : x.kind \in LeafKinds \cup InternalKinds \cup FitKinds}

\* The helper specification uses node (the node the helpers act on), how (the
\* helper that ran last), pc ("helper", or "panicked" once a helper panicked)
\* and result (what the helper returned, with the arguments of the call where
\* a property needs them); buf and ser stay empty.
HelperInit ==
    /\ MvccInit
    /\ node \in HelperNodes
    /\ buf = <<>>
    /\ ser = [tag |-> "None"]
    /\ how = "none"
    /\ pc = "helper"
    /\ result = NoResult

\* What a helper call leaves: the node as the call left it and its outcome.
HelperDone(name, r) ==
    /\ node' = r.node
    /\ result' = [x \in DOMAIN r \ {"node"} |-> r[x]]
    /\ how' = name
    /\ pc' = IF r.tag = "Panic" THEN "panicked" ELSE "helper"
    /\ UNCHANGED <<buf, ser>>
    /\ UNCHANGED mvccVars

PopLast ==
    /\ pc = "helper" /\ node.kind \in LeafKinds
    /\ HelperDone("pop_last_key_and_value", pop_last_key_and_value(node))

ReplaceLastChildId ==
    /\ pc = "helper" /\ node.kind \in InternalKinds
    /\ \E old_id \in PageVals, new_id \in PageVals, checks \in BOOLEAN :
          HelperDone("replace_last_child_id",
                     replace_last_child_id(node, old_id, new_id, checks)
                     @@ [args |-> <<old_id, new_id>>])

\* The tree code appends the key promoted by a split of the last child, which is
\* greater than every key of the node.
AppendPromoted ==
    /\ pc = "helper" /\ node.kind \in InternalKinds
    /\ \E i \in 1..Len(KeyList), page_id \in PageVals :
          /\ Len(node.keys) > 0 => U64Less(node.keys[Len(node.keys)], KeyList[i])
          /\ HelperDone("append_promoted_key_and_page_id",
                        append_promoted_key_and_page_id(node, KeyList[i], page_id))

SplitOff ==
    /\ pc = "helper" /\ node.kind \in InternalKinds
    /\ \E checks \in BOOLEAN : HelperDone("split_off", split_off(node, checks))

\* The free-list code pushes the entry of a new TSN, above the last key; the
\* entries stay within MaxKeys.
PushNewKeyAndValue ==
    /\ pc = "helper" /\ node.kind = "FreeListLeaf"
    /\ Len(node.keys) < MaxKeys /\ Len(node.values) < MaxKeys
    /\ \E i \in 1..Len(KeyList), page_id \in PageVals :
          /\ Len(node.keys) > 0 => U64Less(node.keys[Len(node.keys)], KeyList[i])
          /\ HelperDone("push_new_key_and_value",
                        push_new_key_and_value(node, KeyList[i], page_id)
                        @@ [args |-> <<KeyList[i], page_id>>])

\* The free-list code pushes a page id to the entry idx, whose inline list stays
\* within MaxKeys; idx = values.len() is the first index out of range.
PushNewPageId ==
    /\ pc = "helper" /\ node.kind = "FreeListLeaf"
    /\ \E idx \in 0..Len(node.values), page_id \in PageVals :
          /\ idx < Len(node.values) => Len(node.values[idx + 1].page_ids) < MaxKeys
          /\ HelperDone("push_new_page_id",
                        push_new_page_id(node, idx, page_id)
                        @@ [args |-> <<idx, page_id>>])

\* The distances between the size of the node and the max_node_size asked
\* about: around each of the growths 8, 16 and 26.
Slacks == {0, 7, 8, 9, 15, 16, 17, 25, 26, 27}

\* A fit predicate is asked about the node; the node stays as it is.
WouldFit ==
    /\ pc = "helper" /\ node.kind \in FitKinds
    /\ \E d \in Slacks :
          \/ /\ node.kind = "FreeListLeaf"
             /\ HelperDone("would_fit_new_tsn_and_page_id",
                           [tag |-> "Ok", node |-> node,
                            ret |-> would_fit_new_tsn_and_page_id(
                                        node, calc_serialized_size(node) + d),
                            args |-> <<calc_serialized_size(node) + d>>])
          \/ /\ node.kind \in {"FreeListLeaf", "FreeListTsnLeaf"}
             /\ HelperDone("would_fit_new_page_id",
                           [tag |-> "Ok", node |-> node,
                            ret |-> would_fit_new_page_id(
                                        node, calc_serialized_size(node) + d),
                            args |-> <<calc_serialized_size(node) + d>>])
          \/ /\ node.kind = "FreeListTsnInternal"
             /\ HelperDone("would_fit_new_key_and_child",
                           [tag |-> "Ok", node |-> node,
                            ret |-> would_fit_new_key_and_child(
                                        node, calc_serialized_size(node) + d),
                            args |-> <<calc_serialized_size(node) + d>>])

HelperNext ==
    \/ PopLast \/ ReplaceLastChildId \/ AppendPromoted \/ SplitOff
    \/ PushNewKeyAndValue \/ PushNewPageId \/ WouldFit

HelperSpec == HelperInit /\ [][HelperNext]_vars

\* The largest max_node_size a leaf is grown under.
MaxBudget == 80

\* A free-list leaf grown under a page budget: node is the leaf, ser keeps the
\* max_node_size of the run in its cap field, how the push that ran last; buf
\* and result stay empty.
GrowInit ==
    /\ MvccInit
    /\ node = [kind |-> "FreeListLeaf", keys |-> <<>>, values |-> <<>>]
    /\ buf = <<>>
    /\ \E max_node_size \in 2..MaxBudget : ser = [tag |-> "Budget", cap |-> max_node_size]
    /\ how = "none"
    /\ pc = "grow"
    /\ result = NoResult

\* if leaf.would_fit_new_tsn_and_page_id(max) { leaf.push_new_key_and_value(..) }
\* with a TSN above the last key.
GrowNewKey ==
    /\ pc = "grow"
    /\ would_fit_new_tsn_and_page_id(node, ser.cap)
    /\ \E i \in 1..Len(KeyList), page_id \in PageVals :
          /\ Len(node.keys) > 0 => U64Less(node.keys[Len(node.keys)], KeyList[i])
          /\ node' = push_new_key_and_value(node, KeyList[i], page_id).node
    /\ how' = "push_new_key_and_value"
    /\ UNCHANGED <<buf, ser, pc, result>>
    /\ UNCHANGED mvccVars

\* if leaf.would_fit_new_page_id(max) { leaf.push_new_page_id(idx, ..) }
GrowPageId ==
    /\ pc = "grow"
    /\ would_fit_new_page_id(node, ser.cap)
    /\ \E idx \in 0..(Len(node.values) - 1), page_id \in PageVals :
          node' = push_new_page_id(node, idx, page_id).node
    /\ how' = "push_new_page_id"
    /\ UNCHANGED <<buf, ser, pc, result>>
    /\ UNCHANGED mvccVars

GrowNext == GrowNewKey \/ GrowPageId

GrowSpec == GrowInit /\ [][GrowNext]_vars

\* ------------------------------------------------------------ MVCC controller
\* Page ids, positions and TSNs are u64s small enough to be written as numbers.
\* A page the writer has staged and not yet assigned carries a tentative id,
\* a negative number.

\* The most TSNs committed.
MaxTsn == 4
\* The highest position appended.
MaxPos == 4
\* The (key, value) pairs that fit the node budget of one event leaf page.
LeafCap == 2
\* The most levels of a tree: no more than it has events.
MaxDepth == MaxPos + 1
\* The most distinct snapshots held by readers at one time.
MaxReaders == 2
\* The most failed commits and crashes.
MaxFaults == 1

NoPage == [kind |-> "None"]

\* The page of id in the page map pg.
PageAt(pg, id) == IF id \in DOMAIN pg THEN pg[id] ELSE NoPage

\* What the pager reads: the written pages over the flushed ones.
Pages == cache @@ disk

RECURSIVE TreeEvents(_, _, _)
RECURSIVE ChildEvents(_, _, _)

\* The in-order traversal of the event tree rooted at id: its (position, value)
\* pairs from left to right.
TreeEvents(pg, id, d) ==
    IF id = 0 \/ d = 0 THEN <<>>
    ELSE IF PageAt(pg, id).kind = "EventLeaf"
    THEN [i \in 1..Len(PageAt(pg, id).keys) |->
            [position |-> PageAt(pg, id).keys[i], value |-> PageAt(pg, id).values[i]]]
    ELSE IF PageAt(pg, id).kind = "EventInternal"
    THEN ChildEvents(pg, PageAt(pg, id).child_ids, d - 1)
    ELSE <<>>

ChildEvents(pg, ids, d) ==
    IF ids = <<>> THEN <<>>
    ELSE TreeEvents(pg, Head(ids), d) \o ChildEvents(pg, Tail(ids), d)

RECURSIVE TreePages(_, _, _)

\* The ids of the pages reachable from the tree root id.
TreePages(pg, id, d) ==
    IF id = 0 \/ d = 0 THEN {}
    ELSE IF PageAt(pg, id).kind = "EventInternal"
    THEN {id} \cup UNION { TreePages(pg, PageAt(pg, id).child_ids[i], d - 1) :
                             i \in 1..Len(PageAt(pg, id).child_ids) }
    ELSE {id}

RECURSIVE RightmostLeaf(_, _, _)

\* The id of the rightmost leaf under id: the last child at every level.
RightmostLeaf(pg, id, d) ==
    IF id = 0 \/ d = 0 THEN 0
    ELSE IF PageAt(pg, id).kind = "EventInternal" /\ Len(PageAt(pg, id).child_ids) > 0
    THEN RightmostLeaf(pg, PageAt(pg, id).child_ids[Len(PageAt(pg, id).child_ids)], d - 1)
    ELSE id

\* head(): the largest position of the tree as <<position>>, or <<>> for none.
TreeHead(pg, root) ==
    IF PageAt(pg, RightmostLeaf(pg, root, MaxDepth)).kind = "EventLeaf"
       /\ Len(PageAt(pg, RightmostLeaf(pg, root, MaxDepth)).keys) > 0
    THEN << PageAt(pg, RightmostLeaf(pg, root, MaxDepth)).keys[
                Len(PageAt(pg, RightmostLeaf(pg, root, MaxDepth)).keys)] >>
    ELSE <<>>

\* The position the next appended event gets.
NextPosition(pg, root) ==
    IF TreeHead(pg, root) = <<>> THEN 0 ELSE TreeHead(pg, root)[1] + 1

\* The next tentative id of the writer wr.
NewTid(wr) == 0 - (Cardinality(DOMAIN wr.dirty) + 1)

\* The id under which the writer holds its copy of page id.
ShadowId(wr, id) == IF id < 0 THEN id ELSE NewTid(wr)

\* Copy-on-write: the page id is copied into the dirty set under a tentative id
\* and its old version is recorded as freed; a page already dirty stays.
Shadow(wr, id) ==
    IF id < 0 THEN wr
    ELSE [wr EXCEPT !.dirty = (NewTid(wr) :> PageAt(Pages, id)) @@ wr.dirty,
                    !.freed = wr.freed \cup {id}]

LeafPush(x, key, value) ==
    [x EXCEPT !.keys = Append(x.keys, key), !.values = Append(x.values, value)]

NewLeaf(key, value) == [kind |-> "EventLeaf", keys |-> <<key>>, values |-> <<value>>]

\* The writer once its event got position pos: the next position moves on.
Appended(wr, pos, value) ==
    [wr EXCEPT !.next_position = pos + 1,
               !.positions = Append(wr.positions, pos),
               !.appended = Append(wr.appended, [position |-> pos, value |-> value])]

\* The first event of an empty tree: a new leaf becomes the root.
AppendFirst(wr, pos, value) ==
    [wr EXCEPT !.dirty = (NewTid(wr) :> NewLeaf(pos, value)) @@ wr.dirty,
               !.event_root = NewTid(wr)]

\* The root leaf full holds one pair too many: its last pair moves to a new
\* rightmost leaf, and a new internal root takes the old root and the new
\* sibling as its two children under the promoted key.
SplitRootLeaf(wr, lid, popped) ==
    [wr EXCEPT
       !.dirty = (NewTid(wr) :> NewLeaf(popped.ret[1], popped.ret[2]))
                 @@ ((NewTid(wr) - 1) :>
                       append_promoted_key_and_page_id(
                           [kind |-> "EventInternal", keys |-> <<>>, child_ids |-> <<lid>>],
                           popped.ret[1], NewTid(wr)).node)
                 @@ [wr.dirty EXCEPT ![lid] = popped.node],
       !.event_root = NewTid(wr) - 1]

\* The root is a leaf, held shadowed under lid; full is that leaf with the pair.
AppendRootLeaf(wr, lid, full) ==
    IF Len(full.keys) <= LeafCap
    THEN [wr EXCEPT !.dirty[lid] = full, !.event_root = lid]
    ELSE SplitRootLeaf(wr, lid, pop_last_key_and_value(full))

\* The rightmost leaf lid under the root rid holds one pair too many: its last
\* pair moves to a new rightmost leaf, appended to the root with its key.
SplitLastLeaf(wr, rid, lid, root, popped) ==
    [wr EXCEPT
       !.dirty = (NewTid(wr) :> NewLeaf(popped.ret[1], popped.ret[2]))
                 @@ [wr.dirty EXCEPT
                       ![lid] = popped.node,
                       ![rid] = append_promoted_key_and_page_id(
                                    root, popped.ret[1], NewTid(wr)).node],
       !.event_root = rid]

\* The root rid is internal and its last child is held shadowed under lid; root
\* is the root with its last child pointer rewritten, full the leaf with the pair.
AppendLastLeaf(wr, rid, lid, root, full) ==
    IF Len(full.keys) <= LeafCap
    THEN [wr EXCEPT !.dirty[lid] = full, !.dirty[rid] = root, !.event_root = rid]
    ELSE SplitLastLeaf(wr, rid, lid, root, pop_last_key_and_value(full))

\* wr has the root shadowed under rid; old is the last child of the root.
AppendUnderRoot(wr, rid, old, pos, value) ==
    AppendLastLeaf(Shadow(wr, old), rid, ShadowId(wr, old),
                   replace_last_child_id(wr.dirty[rid], old, ShadowId(wr, old), TRUE).node,
                   LeafPush(PageAt(wr.dirty @@ Pages, old), pos, value))

\* wr has the root shadowed under rid.
AppendAtRoot(wr, rid, pos, value) ==
    IF wr.dirty[rid].kind = "EventLeaf"
    THEN AppendRootLeaf(wr, rid, LeafPush(wr.dirty[rid], pos, value))
    ELSE AppendUnderRoot(wr, rid, wr.dirty[rid].child_ids[Len(wr.dirty[rid].child_ids)],
                         pos, value)

\* One event appended to the rightmost leaf of the writer's event tree.
AppendEvent(wr, value) ==
    Appended(IF wr.event_root = 0
             THEN AppendFirst(wr, wr.next_position, value)
             ELSE AppendAtRoot(Shadow(wr, wr.event_root),
                               ShadowId(wr, wr.event_root), wr.next_position, value),
             wr.next_position, value)

RECURSIVE AppendEvents(_, _, _)

\* Writer::append of n events, in the order given.
AppendEvents(wr, value, n) ==
    IF n = 0 THEN wr ELSE AppendEvents(AppendEvent(wr, value), value, n - 1)

\* The smallest number of a non-empty set.
MinOf(S) == CHOOSE x \in S : \A y \in S : x <= y

RECURSIVE SetToSeq(_)

\* The numbers of S in ascending order.
SetToSeq(S) == IF S = {} THEN <<>> ELSE <<MinOf(S)>> \o SetToSeq(S \ {MinOf(S)})

\* The set of the elements of the sequence s.
Range(s) == {s[i] : i \in 1..Len(s)}

\* The free-list leaf under the root id; no root is an empty free list.
FreeLeaf(root) ==
    IF root = 0 THEN [kind |-> "FreeListLeaf", keys |-> <<>>, values |-> <<>>]
    ELSE PageAt(Pages, root)

\* The TSN of the oldest snapshot a reader holds or can still open.
OldestLiveReaderTsn == MinOf({r.tsn : r \in readers} \cup {committed.tsn})

\* Mutant of Reclaimable: every free-list entry may be reused at once.
ReclaimableAlways(f, oldest) == TRUE

\* Whether the pages freed at TSN f can be reused.
Reclaimable(f, oldest) == f < oldest

RECURSIVE ReclaimPool(_, _, _)

\* Step 2: the reclaim sets of the free-list entries from the i-th on, lowest
\* TSN first, as long as the TSN is reclaimable.
ReclaimPool(fl, oldest, i) ==
    IF i > Len(fl.keys) THEN <<>>
    ELSE IF ~Reclaimable(fl.keys[i], oldest) THEN <<>>
    ELSE fl.values[i].page_ids \o ReclaimPool(fl, oldest, i + 1)

\* Mutant of AssignIds: every id comes from the high-water mark.
AssignIdsFresh(pool, need, next_page_id) ==
    [i \in 1..need |-> next_page_id + i - 1]

\* Step 3: the ids for need pages: from the pool first, then from the
\* high-water mark.
AssignIds(pool, need, next_page_id) ==
    SubSeq(pool, 1, IF need < Len(pool) THEN need ELSE Len(pool))
    \o [i \in 1..(IF need < Len(pool) THEN 0 ELSE need - Len(pool)) |->
          next_page_id + i - 1]

\* The id a page gets: a tentative id -i gets the i-th assigned id.
RealId(ids, id) == IF id < 0 THEN ids[0 - id] ELSE id

\* Step 3: the node with its child pointers rewritten from tentative to real.
Rewrite(x, ids) ==
    IF x.kind = "EventInternal"
    THEN [x EXCEPT !.child_ids = [i \in 1..Len(x.child_ids) |-> RealId(ids, x.child_ids[i])]]
    ELSE x

RECURSIVE WithoutTaken(_, _, _)

\* The free-list entries from the i-th on without the page ids taken; an entry
\* left with no page id goes.
WithoutTaken(fl, taken, i) ==
    IF i > Len(fl.keys) THEN <<>>
    ELSE IF Range(fl.values[i].page_ids) \subseteq taken
    THEN WithoutTaken(fl, taken, i + 1)
    ELSE << [key |-> fl.keys[i],
             value |-> [fl.values[i] EXCEPT
                          !.page_ids = SelectSeq(fl.values[i].page_ids,
                                                 LAMBDA q : q \notin taken)]] >>
         \o WithoutTaken(fl, taken, i + 1)

\* Mutant of NewFreeLeaf: the ids taken from the pool stay in the free list.
NewFreeLeafKeepsTaken(fl, taken, t, F) ==
    [kind |-> "FreeListLeaf",
     keys |-> fl.keys \o <<t>>,
     values |-> fl.values \o <<[page_ids |-> F, root_id |-> 0]>>]

\* Step 4: the free-list leaf without the ids taken and with the entry (t, F).
NewFreeLeaf(fl, taken, t, F) ==
    [kind |-> "FreeListLeaf",
     keys |-> [i \in 1..Len(WithoutTaken(fl, taken, 1)) |-> WithoutTaken(fl, taken, 1)[i].key]
              \o <<t>>,
     values |-> [i \in 1..Len(WithoutTaken(fl, taken, 1)) |->
                   WithoutTaken(fl, taken, 1)[i].value]
                \o <<[page_ids |-> F, root_id |-> 0]>>]

\* Mutant of NextTsn: the commit keeps the current TSN.
NextTsnSame(c) == c.tsn

\* Step 1: the TSN of the commit on top of the committed snapshot c.
NextTsn(c) == c.tsn + 1

\* Whether the commit rewrites the free list: it frees pages or takes some.
FreeListChanges(wr, pool) ==
    DOMAIN wr.dirty # {} /\ (wr.freed # {} \/ pool # <<>>)

\* Steps 1 to 4 with the ids assigned: n staged pages, the free-list leaf (when
\* it changes) as page n + 1.
Assigned(wr, fl, pool, ids, n, changes, oldest) ==
    [st |-> "assigned",
     tsn |-> NextTsn(committed),
     pages |-> [q \in Range(ids) |->
                  IF changes /\ q = ids[Len(ids)]
                  THEN NewFreeLeaf(fl, Range(ids) \cap Range(pool), NextTsn(committed),
                                   SetToSeq(wr.freed \cup ({committed.free_root} \ {0})))
                  ELSE Rewrite(wr.dirty[0 - (CHOOSE i \in 1..n : ids[i] = q)], ids)],
     newsb |-> [tsn |-> NextTsn(committed),
                event_root |-> RealId(ids, wr.event_root),
                free_root |-> IF changes THEN ids[Len(ids)] ELSE committed.free_root,
                next_page_id |-> committed.next_page_id
                                 + Cardinality(Range(ids) \ Range(pool)),
                oldest_live_reader_tsn |-> oldest],
     events |-> history[committed.tsn].events \o wr.appended]

\* Steps 1 to 4 of commit, for the pool of reclaimable pages.
AssignFrom(wr, fl, pool, n, changes, oldest) ==
    Assigned(wr, fl, pool,
             AssignIds(pool, n + (IF changes THEN 1 ELSE 0), committed.next_page_id),
             n, changes, oldest)

\* Steps 1 to 4 of commit.
Assign(wr, fl, oldest) ==
    AssignFrom(wr, fl, ReclaimPool(fl, oldest, 1), Cardinality(DOMAIN wr.dirty),
               FreeListChanges(wr, ReclaimPool(fl, oldest, 1)), oldest)

\* What history keeps of the snapshot of the superblock s once it is durable: its
\* events ev, the pages its event root reaches in pg, its free list, and whether
\* an fsync or a crash made it durable.
Installed(s, ev, pg, by) ==
    [events |-> ev,
     pages |-> [q \in TreePages(pg, s.event_root, MaxDepth) |-> PageAt(pg, q)],
     free |-> IF s.free_root = 0
              THEN [kind |-> "FreeListLeaf", keys |-> <<>>, values |-> <<>>]
              ELSE PageAt(pg, s.free_root),
     by |-> by]

\* Mutant of Droppable: the writer is discarded at any point of its commit.
DroppableAnytime(st) == st # "none"

\* Whether a writer in state st can still be dropped: its commit has not begun
\* writing the superblock.
Droppable(st) == st \in {"open", "assigned", "written", "synced"}

\* The snapshot a reader captures.
Snapshot(c) == [tsn |-> c.tsn, event_root |-> c.event_root]

\* Mutant of WriterFree: a request for a Writer is always served.
WriterFreeAlways == TRUE

\* Whether a request for a Writer is served: no Writer exists.
WriterFree == wcount = 0

\* Mutant of Flushed: the fsync returns without flushing anything.
FlushedNothing == disk

\* What fsync makes durable: every written page.
Flushed == cache @@ disk

\* The specification of the MVCC controller leaves the codec variables alone.
MvccInitSpec ==
    /\ MvccInit
    /\ node = [kind |-> "None"]
    /\ buf = <<>>
    /\ ser = [tag |-> "None"]
    /\ how = "none"
    /\ pc = "mvcc"
    /\ result = NoResult

\* Db::writer(): the Writer starts from the committed snapshot.
AcquireWriter ==
    /\ WriterFree
    /\ wcount' = wcount + 1
    /\ w' = [st |-> "open",
             event_root |-> committed.event_root,
             next_position |-> NextPosition(Pages, committed.event_root),
             dirty |-> <<>>, freed |-> {}, positions |-> <<>>, appended |-> <<>>]
    /\ UNCHANGED <<disk, cache, sb, sbCache, committed, readers, history, faults>>
    /\ UNCHANGED codecVars

\* Writer::append(events): one event or as many as fill a leaf, marked with the
\* TSN they are written for.
Append_ ==
    /\ w.st = "open"
    /\ \E n \in {1, LeafCap} :
          /\ w.next_position + n - 1 <= MaxPos
          /\ w' = AppendEvents([w EXCEPT !.positions = <<>>], NextTsn(committed), n)
    /\ UNCHANGED <<disk, cache, sb, sbCache, committed, wcount, readers, history, faults>>
    /\ UNCHANGED codecVars

\* commit, steps 1 to 4: the TSN, the reclaim pool, the page ids, the free list.
BeginCommit ==
    /\ w.st = "open"
    /\ committed.tsn < MaxTsn
    /\ w' = Assign(w, FreeLeaf(committed.free_root), OldestLiveReaderTsn)
    /\ UNCHANGED <<disk, cache, sb, sbCache, committed, wcount, readers, history, faults>>
    /\ UNCHANGED codecVars

\* commit, step 5: write_batch writes the dirty pages; it does not fsync, so
\* until the fsync any part of the batch may have reached the file (see Crash).
WriteBatch ==
    /\ w.st = "assigned"
    /\ cache' = w.pages @@ cache
    /\ w' = [w EXCEPT !.st = "written"]
    /\ UNCHANGED <<disk, sb, sbCache, committed, wcount, readers, history, faults>>
    /\ UNCHANGED codecVars

\* commit, step 5: pager.fsync() after the batch.
FsyncData ==
    /\ w.st = "written"
    /\ disk' = Flushed
    /\ cache' = <<>>
    /\ w' = [w EXCEPT !.st = "synced"]
    /\ UNCHANGED <<sb, sbCache, committed, wcount, readers, history, faults>>
    /\ UNCHANGED codecVars

\* commit, step 6: the new superblock is written.
WriteSuperblock ==
    /\ w.st = "synced"
    /\ sbCache' = <<w.newsb>>
    /\ w' = [w EXCEPT !.st = "sbwritten"]
    /\ UNCHANGED <<disk, cache, sb, committed, wcount, readers, history, faults>>
    /\ UNCHANGED codecVars

\* commit, step 6: the fsync of the superblock returns.
FsyncSuperblock ==
    /\ w.st = "sbwritten"
    /\ sb' = sbCache[1]
    /\ sbCache' = <<>>
    /\ disk' = Flushed
    /\ cache' = <<>>
    /\ history' = (sbCache[1].tsn :> Installed(sbCache[1], w.events, Flushed, "fsync"))
                   @@ history
    /\ w' = [w EXCEPT !.st = "durable"]
    /\ UNCHANGED <<committed, wcount, readers, faults>>
    /\ UNCHANGED codecVars

\* commit, step 7: the committed snapshot is swapped and the writer is done.
Swap ==
    /\ w.st = "durable"
    /\ committed' = w.newsb
    /\ w' = NoWriter
    /\ wcount' = wcount - 1
    /\ UNCHANGED <<disk, cache, sb, sbCache, readers, history, faults>>
    /\ UNCHANGED codecVars

\* The writer is dropped, or its commit fails, before the superblock is written:
\* the writer state is discarded.
DropWriter ==
    /\ w.st # "none" /\ Droppable(w.st)
    /\ w.st # "open" => faults < MaxFaults
    /\ faults' = IF w.st = "open" THEN faults ELSE faults + 1
    /\ w' = NoWriter
    /\ wcount' = wcount - 1
    /\ UNCHANGED <<disk, cache, sb, sbCache, committed, readers, history>>
    /\ UNCHANGED codecVars

\* Db::reader(): a reader captures the committed snapshot.
OpenReader ==
    /\ Cardinality(readers \cup {Snapshot(committed)}) <= MaxReaders
    /\ readers' = readers \cup {Snapshot(committed)}
    /\ UNCHANGED <<disk, cache, sb, sbCache, committed, w, wcount, history, faults>>
    /\ UNCHANGED codecVars

\* A reader is dropped.
CloseReader ==
    /\ \E r \in readers : readers' = readers \ {r}
    /\ UNCHANGED <<disk, cache, sb, sbCache, committed, w, wcount, history, faults>>
    /\ UNCHANGED codecVars

\* The process stops and the file is opened again: of the pages and the
\* superblock written and not fsynced, any part has reached the file; the
\* committed snapshot is read from the superblock of the file.
Crash ==
    /\ faults < MaxFaults
    /\ faults' = faults + 1
    /\ \E S \in SUBSET (DOMAIN cache), keep \in BOOLEAN :
          /\ disk' = [q \in S |-> cache[q]] @@ disk
          /\ sb' = IF keep /\ sbCache # <<>> THEN sbCache[1] ELSE sb
          /\ history' = IF keep /\ sbCache # <<>>
                        THEN (sbCache[1].tsn :>
                                Installed(sbCache[1], w.events, disk', "crash")) @@ history
                        ELSE history
    /\ committed' = sb'
    /\ cache' = <<>>
    /\ sbCache' = <<>>
    /\ w' = NoWriter
    /\ wcount' = 0
    /\ readers' = {}
    /\ UNCHANGED codecVars

MvccNext ==
    \/ AcquireWriter \/ Append_ \/ BeginCommit \/ WriteBatch \/ FsyncData
    \/ WriteSuperblock \/ FsyncSuperblock \/ Swap \/ DropWriter
    \/ OpenReader \/ CloseReader \/ Crash

MvccSpec == MvccInitSpec /\ [][MvccNext]_vars

\* ------------------------------------------------------------------ claims

\* A node its wire format can hold: a leaf has one value per key, and an event
\* internal node, whose child count is not written, has one child more than keys.
Encodable(x) ==
    CASE x.kind \in {"EventLeaf", "FreeListLeaf"} -> Len(x.keys) = Len(x.values)
      [] x.kind = "EventInternal" -> Len(x.child_ids) = Len(x.keys) + 1
      [] OTHER -> TRUE

\* from_slice has run on the buffer exactly as serialize_into filled it.
DecodedExact == pc = "decoded" /\ how = "exact" /\ ser.tag = "Ok"

\* C1: an EventLeafNode with |keys| = |values|, serialized into a buffer of
\* calc_serialized_size bytes and decoded from it, comes back equal: same keys,
\* same variants in the same order, same data_len / root_id, same uuid or None.
C1_EventLeafRoundTrip ==
    (DecodedExact /\ node.kind = "EventLeaf" /\ Len(node.keys) = Len(node.values))
        => (result.tag = "Ok" /\ result.node = node)

\* A decoded leaf that mixes an Inline and an Overflow value, one with a uuid and
\* one without.
C1_Witness ==
    /\ DecodedExact /\ node.kind = "EventLeaf" /\ Len(node.values) = 2
    /\ node.values[1].variant = "Inline" /\ node.values[2].variant = "Overflow"
    /\ Len(node.values[1].uuid) = 0 /\ Len(node.values[2].uuid) = 1
    /\ result.tag = "Ok" /\ result.node = node

\* C2: an EventInternalNode with len(child_ids) = len(keys) + 1 comes back equal
\* from its serialized buffer, though the child count is not in the buffer.
C2_EventInternalRoundTrip ==
    (DecodedExact /\ node.kind = "EventInternal"
     /\ Len(node.child_ids) = Len(node.keys) + 1)
        => (result.tag = "Ok" /\ result.node = node)

C2_Witness ==
    /\ DecodedExact /\ node.kind = "EventInternal"
    /\ Len(node.keys) = 2 /\ Len(node.child_ids) = 3
    /\ Len(buf) = 2 + 8 * 2 + 8 * 3
    /\ result.tag = "Ok" /\ result.node.child_ids = node.child_ids

\* C3: free-list leaf (|keys| = |values|), free-list internal, TSN-subtree leaf,
\* TSN-subtree internal and event overflow nodes come back equal from a buffer
\* of exactly calc_serialized_size bytes.
C3_FreeListRoundTrip ==
    (DecodedExact
     /\ node.kind \in {"FreeListLeaf", "FreeListInternal", "FreeListTsnLeaf",
                       "FreeListTsnInternal", "EventOverflow"}
     /\ (node.kind = "FreeListLeaf" => Len(node.keys) = Len(node.values)))
        => (result.tag = "Ok" /\ result.node = node /\ result.used = Len(buf))

\* A decoded free-list leaf holding an entry with root_id = 0 and an inline list
\* and an entry with a subtree root.
C3_Witness ==
    /\ DecodedExact /\ node.kind = "FreeListLeaf" /\ Len(node.values) = 2
    /\ node.values[1].root_id = PageIdZero /\ Len(node.values[1].page_ids) = 2
    /\ node.values[2].root_id # PageIdZero
    /\ result.tag = "Ok" /\ result.node = node

\* C4: serialize_into on a buffer of exactly calc_serialized_size() bytes writes
\* inside the buffer only (no panic) and returns calc_serialized_size().
C4_SerializedSizeExact ==
    (how \in {"exact", "truncated", "flipped"})
        => (ser.tag = "Ok" /\ ser.written = ser.cap)

\* An event leaf with a uuid-carrying value of each variant, serialized.
C4_Witness ==
    /\ pc = "buf" /\ how = "exact" /\ node.kind = "EventLeaf"
    /\ Len(node.values) = 2 /\ Len(node.keys) = 2
    /\ node.values[1].variant = "Inline" /\ Len(node.values[1].uuid) = 1
    /\ node.values[2].variant = "Overflow" /\ Len(node.values[2].uuid) = 1
    /\ ser.tag = "Ok" /\ ser.written = Len(buf) /\ Len(buf) > 2 + 16 + 32

\* The six node types whose fields are all length-prefixed.
PrefixedKinds ==
    {"EventLeaf", "EventInternal", "FreeListLeaf", "FreeListInternal",
     "FreeListTsnLeaf", "FreeListTsnInternal"}

\* C5: the serialized buffer of an encodable node of a length-prefixed type, cut
\* by n >= 1 trailing bytes, is rejected with DeserializationError, without a read
\* past the cut (which would be a panic).
C5_TruncationRejected ==
    (pc = "decoded" /\ how = "truncated" /\ node.kind \in PrefixedKinds
     /\ Encodable(node))
        => result = DeErr

\* An event leaf cut inside its second value.
C5_Witness ==
    /\ pc = "decoded" /\ how = "truncated" /\ node.kind = "EventLeaf"
    /\ Len(node.keys) = 2 /\ Len(node.values) = 2
    /\ Len(buf) > 2 + 16 + EventValueSize(node.values[1])
    /\ result = DeErr

\* C6 as claimed: every truncation of a serialized EventOverflowNode is rejected.
C6_OverflowTruncationRejected ==
    (pc = "decoded" /\ how = "truncated" /\ node.kind = "EventOverflow")
        => result = DeErr

\* C6, amended: a serialized EventOverflowNode cut to fewer than 8 bytes is
\* rejected with DeserializationError; cut to 8 bytes or more it decodes to a
\* node with the same next and the data bytes that are left.
C6_OverflowTruncation ==
    (pc = "decoded" /\ how = "truncated" /\ node.kind = "EventOverflow")
        => IF Len(buf) < 8 THEN result = DeErr
           ELSE /\ result.tag = "Ok"
                /\ result.node.next = node.next
                /\ result.node.data = SubSeq(node.data, 1, Len(buf) - 8)

\* An overflow node of four data bytes cut by one byte, decoded.
C6_Witness ==
    /\ pc = "decoded" /\ how = "truncated" /\ node.kind = "EventOverflow"
    /\ Len(node.data) = 4 /\ Len(buf) = 11
    /\ result.tag = "Ok" /\ Len(result.node.data) = 3

\* C7: from_slice of every node type, on every byte string, returns Ok(node) or
\* Err(DeserializationError) and reads inside the input only: it never panics.
C7_FromSliceTotal ==
    (pc = "decoded")
        => \/ result = DeErr
           \/ (result.tag = "Ok" /\ result.used <= Len(buf)
               /\ result.node.kind = node.kind)

\* A raw input whose first length prefix claims more elements than it holds.
C7_Witness ==
    /\ pc = "decoded" /\ how = "raw" /\ Len(buf) = MaxRaw
    /\ ReadU16(buf, 0) = 65535
    /\ node.kind = "FreeListTsnInternal"
    /\ result = DeErr

\* C8 as claimed: a serialized buffer with one byte changed is rejected.
C8_FlipRejected ==
    (pc = "decoded" /\ how = "flipped" /\ Encodable(node)) => result = DeErr

\* C8, amended: a serialized buffer with one byte changed never decodes to the
\* node that was serialized: from_slice returns DeserializationError or Ok of a
\* different node.
C8_FlipNeverSameNode ==
    (pc = "decoded" /\ how = "flipped" /\ Encodable(node))
        => \/ result = DeErr
           \/ (result.tag = "Ok" /\ result.node # node)

\* An event leaf with one byte changed that decodes, to another node.
C8_Witness ==
    /\ pc = "decoded" /\ how = "flipped" /\ node.kind = "EventLeaf"
    /\ Len(node.values) = 2
    /\ result.tag = "Ok" /\ result.node # node
    /\ Len(result.node.values) = 2

\* The offset of the flags byte of value i in the serialized form of leaf x.
FlagsOffset(x, i) ==
    2 + Len(x.keys) * 8
    + SumTo([j \in 1..(i - 1) |-> EventValueSize(x.values[j])], i - 1)

\* The flags byte b selects the variant and the uuid of the decoded value v.
FlagsDecodedAs(b, v) ==
    /\ b \in 0..3
    /\ (v.variant = "Overflow") <=> (b % 2 = 1)
    /\ (Len(v.uuid) = 1) <=> ((b \div 2) % 2 = 1)

\* C9: EventLeafNode::from_slice rejects a buffer in which the flags byte of a
\* value has a bit other than bit 0 (OVERFLOW) and bit 1 (HAS_UUID) set; the four
\* combinations of those bits are accepted, bit 0 decoding to the Overflow
\* variant and bit 1 to uuid = Some.
C9_FlagBits ==
    (pc = "decoded" /\ node.kind = "EventLeaf")
        => /\ (result.tag = "Ok") =>
                 \A i \in 1..Len(result.node.values) :
                    FlagsDecodedAs(result.bits[i], result.node.values[i])
           /\ (how \in {"exact", "flipped"} /\ Encodable(node)) =>
                 /\ (\E i \in 1..Len(node.values) :
                        buf[FlagsOffset(node, i) + 1] \notin 0..3)
                      => result = DeErr
                 /\ (how = "exact") =>
                      /\ result.tag = "Ok"
                      /\ \A i \in 1..Len(node.values) :
                            result.bits[i] = buf[FlagsOffset(node, i) + 1]

\* The flags byte of the second value of a leaf changed to 4 (an undefined bit).
C9_Witness ==
    /\ pc = "decoded" /\ how = "flipped" /\ node.kind = "EventLeaf"
    /\ Len(node.values) = 2 /\ Len(node.keys) = 2
    /\ buf[FlagsOffset(node, 2) + 1] = 4
    /\ result = DeErr

\* C10 as claimed: pop_last_key_and_value, replace_last_child_id and split_off
\* return Ok or a typed error for every node, the empty and the ill-shaped ones
\* included: none of them panics.
C10_HelpersNeverPanic ==
    (how \in {"pop_last_key_and_value", "replace_last_child_id", "split_off"})
        => result.tag \in {"Ok", "Err"}

\* Keys strictly ascending, as u64s.
StrictlyAscending(keys) ==
    \A i \in 1..(Len(keys) - 1) : U64Less(keys[i], keys[i + 1])

\* The shape of a B+ internal node: ascending keys and one child more than keys.
InternalShape(keys, child_ids) ==
    StrictlyAscending(keys) /\ Len(child_ids) = Len(keys) + 1

\* C19: split_off on an internal node with K >= 2 keys and K + 1 children returns
\* the key at index K-2 as the promoted key, the last key as the right keys and
\* the last two children as the right children, and leaves the first K-2 keys
\* and the first K-1 children; left keys, promoted key and right keys make up the
\* original keys, left and right children the original children.
C19_SplitOffResult ==
    [][(how' = "split_off" /\ Len(node.keys) >= 2
                           /\ Len(node.child_ids) = Len(node.keys) + 1)
        => LET K == Len(node.keys)
           IN /\ result'.tag = "Ok"
              /\ result'.ret = <<node.keys[K - 1], <<node.keys[K]>>,
                                 <<node.child_ids[K], node.child_ids[K + 1]>> >>
              /\ node'.keys = SubSeq(node.keys, 1, K - 2)
              /\ node'.child_ids = SubSeq(node.child_ids, 1, K - 1)
              /\ node'.keys \o <<result'.ret[1]>> \o result'.ret[2] = node.keys
              /\ node'.child_ids \o result'.ret[3] = node.child_ids]_vars

\* A split of a node that had three keys: one key stays on the left.
C19_Witness ==
    /\ how = "split_off" /\ result.tag = "Ok"
    /\ Len(node.keys) = 1 /\ Len(node.child_ids) = 2
    /\ Len(result.ret[2]) = 1 /\ Len(result.ret[3]) = 2

\* C20: from an internal node with strictly ascending keys and one child more
\* than keys, replace_last_child_id, append_promoted_key_and_page_id (with a key
\* above the last key) and split_off (with at least 2 keys) leave the node in
\* that shape; the right sibling of a split has that shape too, and every left
\* key is below the promoted key, which is below every right key.
C20_ShapePreserved ==
    [][(/\ node.kind \in InternalKinds
        /\ InternalShape(node.keys, node.child_ids)
        /\ how' = "split_off" => Len(node.keys) >= 2)
        => /\ result'.tag \in {"Ok", "Err"}
           /\ InternalShape(node'.keys, node'.child_ids)
           /\ (how' = "split_off") =>
                 /\ InternalShape(result'.ret[2], result'.ret[3])
                 /\ \A i \in 1..Len(node'.keys) : U64Less(node'.keys[i], result'.ret[1])
                 /\ \A i \in 1..Len(result'.ret[2]) :
                       U64Less(result'.ret[1], result'.ret[2][i])]_vars

\* A well-shaped node with two keys after an append, a replacement or a split.
C20_Witness ==
    /\ node.kind \in InternalKinds /\ result.tag = "Ok"
    /\ how \in {"replace_last_child_id", "append_promoted_key_and_page_id", "split_off"}
    /\ Len(node.keys) = 2 /\ InternalShape(node.keys, node.child_ids)

\* The events a reader holding the snapshot r reads: the in-order traversal from
\* its event root through the pager.
ReaderEvents(r) == TreeEvents(Pages, r.event_root, MaxDepth)

\* C11: at every point of a commit, every open reader, and a reader opened now,
\* reads exactly the events of the snapshot installed at its TSN, a TSN whose
\* superblock is durable: never part of a commit, never a commit still under way.
C11_SnapshotAtomicity ==
    \A r \in readers \cup {Snapshot(committed)} :
        /\ r.tsn \in DOMAIN history
        /\ r.tsn <= committed.tsn
        /\ committed.tsn <= sb.tsn
        /\ ReaderEvents(r) = history[r.tsn].events

\* A reader of the snapshot t-1 that holds events, while the commit of t, which
\* appended events, has its superblock durable and has not swapped yet.
C11_Witness ==
    /\ w.st = "durable"
    /\ \E r \in readers : /\ r.tsn + 1 = sb.tsn
                          /\ Len(ReaderEvents(r)) > 0
                          /\ Len(w.events) > Len(ReaderEvents(r))

\* The writer is inside commit: its pages carry their final page ids.
InCommit == w.st \in {"assigned", "written", "synced", "sbwritten", "durable"}

\* The pages reachable from the snapshot of a reader, as they were when the
\* snapshot was installed.
SnapshotPages(r) == history[r.tsn].pages

\* C12: while a reader is open, every page reachable from its event root keeps
\* the content it had when the snapshot was installed, and no commit, reusing
\* reclaimed pages or not, writes to a page id its snapshot reaches.
C12_ReaderIsolation ==
    \A r \in readers :
        /\ \A q \in DOMAIN SnapshotPages(r) : PageAt(Pages, q) = SnapshotPages(r)[q]
        /\ InCommit => DOMAIN w.pages \cap DOMAIN SnapshotPages(r) = {}

\* A reader whose snapshot reaches pages is open while a commit has written a
\* batch that reuses a reclaimed page id.
C12_Witness ==
    /\ w.st = "written"
    /\ \E q \in DOMAIN w.pages : q < committed.next_page_id
    /\ \E r \in readers : DOMAIN SnapshotPages(r) # {}

\* The in-order events of the committed tree.
CommittedEvents == TreeEvents(Pages, committed.event_root, MaxDepth)

\* The in-order events of the tree the open writer has built so far.
WriterEvents == TreeEvents(w.dirty @@ Pages, w.event_root, MaxDepth)

\* The keys of ev are 0, 1, 2, ... in order: no gap and no duplicate.
Dense(ev) == \A i \in 1..Len(ev) : ev[i].position = i - 1

\* C13: the in-order keys of the committed tree are exactly 0..head, head being
\* the last key of the rightmost leaf; the same holds of the tree an open writer
\* builds; the positions an append returns increase by one each, and the events
\* of the writer continue right after the committed head.
C13_DensePositions ==
    /\ Dense(CommittedEvents)
    /\ TreeHead(Pages, committed.event_root)
         = (IF CommittedEvents = <<>> THEN <<>> ELSE <<Len(CommittedEvents) - 1>>)
    /\ w.st = "open" =>
         /\ Dense(WriterEvents)
         /\ WriterEvents = CommittedEvents \o w.appended
         /\ \A i \in 1..Len(w.appended) :
               w.appended[i].position = Len(CommittedEvents) + i - 1
         /\ \A i \in 1..Len(w.positions) :
               w.positions[i] = w.next_position - Len(w.positions) + i - 1
         /\ \A i \in 1..(Len(w.positions) - 1) : w.positions[i] < w.positions[i + 1]

\* The committed tree holds events, and an append of several events has returned
\* its positions after an earlier append of the same writer, whose tree now has
\* an internal root.
C13_Witness ==
    /\ w.st = "open"
    /\ CommittedEvents # <<>>
    /\ PageAt(w.dirty @@ Pages, w.event_root).kind = "EventInternal"
    /\ Len(w.positions) = LeafCap
    /\ Len(w.appended) > LeafCap

\* What reopening the file reads: the events in order from the event root of
\* the durable superblock, through the durable pages only.
DurableEvents == TreeEvents(disk, sb.event_root, MaxDepth)

\* The commit is under way and the superblock write has not begun.
BeforeSuperblockWrite == w.st \in {"assigned", "written", "synced"}

PassedFreePages ==
    UNION { Range(FreeLeaf(committed.free_root).values[i].page_ids) :
              i \in { k \in 1..Len(FreeLeaf(committed.free_root).keys) :
                        FreeLeaf(committed.free_root).keys[k] < OldestLiveReaderTsn } }

\* C17: when a commit assigns its page ids, it raises the high-water mark only
\* by the pages it writes beyond the freed pages the oldest live reader has
\* passed: a commit that writes pages while such freed pages exist reuses some,
\* and none is left unused by a commit that raises the high-water mark.
C17_ReclaimReuse ==
    [][ (w.st = "open" /\ w'.st = "assigned") =>
          /\ w'.newsb.next_page_id - committed.next_page_id
               = Cardinality(DOMAIN w'.pages \ PassedFreePages)
          /\ w'.newsb.next_page_id > committed.next_page_id
               => PassedFreePages \subseteq DOMAIN w'.pages
          /\ (DOMAIN w'.pages # {} /\ PassedFreePages # {})
               => DOMAIN w'.pages \cap PassedFreePages # {} ]_vars

\* A commit has taken a page id freed by an earlier commit, and raised the
\* high-water mark by less than the number of pages it writes.
C17_Witness ==
    /\ w.st = "assigned"
    /\ \E q \in DOMAIN w.pages : q < committed.next_page_id
    /\ w.newsb.next_page_id - committed.next_page_id < Cardinality(DOMAIN w.pages)
    /\ \E i \in 1..Len(FreeLeaf(committed.free_root).keys) :
          \E q \in Range(FreeLeaf(committed.free_root).values[i].page_ids) :
              q \in DOMAIN w.pages /\ FreeLeaf(committed.free_root).keys[i] < committed.tsn

\* The pages a snapshot r reaches through the pager.
ReachedPages(r) == TreePages(Pages, r.event_root, MaxDepth)

\* C18: a writer that goes away before its commit writes the superblock leaves
\* the durable superblock, the committed snapshot, the head and the events as
\* they were; once no writer is left, no superblock write is pending and the
\* committed snapshot is the durable one; and no page the writer staged or
\* wrote is reachable from the snapshot of a reader, open or opened now.
C18_DropLeavesState ==
    /\ [](w.st = "none" => sbCache = <<>> /\ sb = committed)
    /\ [](\A r \in readers \cup {Snapshot(committed)} :
             /\ w.st = "open" => ReachedPages(r) \cap DOMAIN w.dirty = {}
             /\ InCommit => ReachedPages(r) \cap DOMAIN w.pages = {})
    /\ [][ ((w.st = "open" \/ BeforeSuperblockWrite) /\ w'.st = "none") =>
              /\ sb' = sb
              /\ committed' = committed
              /\ TreeHead(Pages', committed'.event_root)
                   = TreeHead(Pages, committed.event_root)
              /\ CommittedEvents' = CommittedEvents
              /\ DurableEvents' = DurableEvents ]_vars

\* A writer was dropped after its commit had written its batch and before the
\* fsync: its pages are in the pager, the committed tree holds events and a
\* reader is open.
C18_Witness ==
    /\ w.st = "none" /\ faults = 1
    /\ cache # <<>>
    /\ CommittedEvents # <<>>
    /\ readers # {}

\* C21: replace_last_child_id(old_id, new_id) on an internal node with at least
\* one child returns Ok exactly when the last child id is old_id, and then the
\* node differs only in its last child id, which is new_id; otherwise, also when
\* old_id is a child at another position, it returns DatabaseCorrupted and
\* leaves the node as it was.
C21_ReplaceLastChildId ==
    [][(how' = "replace_last_child_id" /\ Len(node.child_ids) >= 1)
        => LET n == Len(node.child_ids)
               old_id == result'.args[1]
               new_id == result'.args[2]
           IN IF node.child_ids[n] = old_id
              THEN /\ result'.tag = "Ok"
                   /\ node'.keys = node.keys
                   /\ node'.kind = node.kind
                   /\ Len(node'.child_ids) = n
                   /\ node'.child_ids[n] = new_id
                   /\ \A i \in 1..(n - 1) : node'.child_ids[i] = node.child_ids[i]
              ELSE /\ result'.tag = "Err"
                   /\ result'.err = "DatabaseCorrupted"
                   /\ node' = node]_vars

\* A replacement that stored a new last child next to a different first child,
\* and a rejected replacement whose old_id is a child at a non-last position.
C21_Witness ==
    /\ how = "replace_last_child_id"
    /\ Len(node.child_ids) >= 2
    /\ \/ /\ result.tag = "Ok"
          /\ node.child_ids[Len(node.child_ids)] = result.args[2]
          /\ result.args[1] # result.args[2]
          /\ node.child_ids[1] # result.args[2]
       \/ /\ result.tag = "Err"
          /\ node.child_ids[1] = result.args[1]
          /\ node.child_ids[Len(node.child_ids)] # result.args[1]

\* C22: whatever the input bytes, a node EventInternalNode::from_slice returns
\* has as many keys as the u16 prefix says and exactly one child id more, and an
\* input shorter than 2 + 8 * keys_len + 8 * (keys_len + 1) bytes, the 2-byte
\* input of zero keys among them, is rejected with DeserializationError.
C22_EventInternalChildCount ==
    (pc = "decoded" /\ node.kind = "EventInternal")
        => /\ result.tag = "Ok" =>
                /\ Len(result.node.keys) = ReadU16(buf, 0)
                /\ Len(result.node.child_ids) = ReadU16(buf, 0) + 1
           /\ Len(buf) < 2 => result = DeErr
           /\ (Len(buf) >= 2
               /\ Len(buf) < 2 + 8 * ReadU16(buf, 0) + 8 * (ReadU16(buf, 0) + 1))
                 => result = DeErr

\* The 2-byte input that encodes zero keys has been rejected.
C22_Witness ==
    /\ pc = "decoded" /\ node.kind = "EventInternal"
    /\ buf = <<0, 0>>
    /\ result = DeErr

\* C23 as claimed: whatever the input bytes, a node FreeListInternalNode::from_slice
\* or FreeListTsnInternalNode::from_slice returns has one child id more than keys.
C23_DecodedChildCount ==
    (pc = "decoded" /\ node.kind \in {"FreeListInternal", "FreeListTsnInternal"}
     /\ result.tag = "Ok")
        => Len(result.node.child_ids) = Len(result.node.keys) + 1

\* C24: push_new_key_and_value(tsn, page_id) appends one entry with key tsn,
\* inline list [page_id] and root_id PageID(0), leaves the earlier keys and
\* values as they were and keeps |keys| = |values|; push_new_page_id(idx,
\* page_id), idx being an entry of the leaf, appends page_id to the inline list
\* of that entry and changes no key, no root_id and no other entry.
C24_PushFrame ==
    [][ /\ (how' = "push_new_key_and_value") =>
              /\ result'.tag = "Ok"
              /\ node'.keys = Append(node.keys, result'.args[1])
              /\ node'.values = Append(node.values,
                                       [page_ids |-> <<result'.args[2]>>,
                                        root_id |-> PageIdZero])
              /\ SubSeq(node'.keys, 1, Len(node.keys)) = node.keys
              /\ SubSeq(node'.values, 1, Len(node.values)) = node.values
              /\ Len(node.keys) = Len(node.values) => Len(node'.keys) = Len(node'.values)
        /\ (how' = "push_new_page_id" /\ result'.args[1] < Len(node.values)) =>
              /\ result'.tag = "Ok"
              /\ node'.keys = node.keys
              /\ Len(node'.values) = Len(node.values)
              /\ \A j \in 1..Len(node.values) :
                    /\ node'.values[j].root_id = node.values[j].root_id
                    /\ node'.values[j].page_ids =
                          (IF j = result'.args[1] + 1
                           THEN Append(node.values[j].page_ids, result'.args[2])
                           ELSE node.values[j].page_ids) ]_vars

\* A page id was pushed to the first of two entries, whose inline list now
\* differs from that of the second.
C24_Witness ==
    /\ how = "push_new_page_id" /\ result.tag = "Ok"
    /\ Len(node.keys) = 2 /\ Len(node.values) = 2
    /\ result.args[1] = 0
    /\ node.values[1].page_ids[Len(node.values[1].page_ids)] = result.args[2]
    /\ node.values[2].page_ids # node.values[1].page_ids

\* C25: each fit predicate answers true exactly when the node, grown by the
\* element it asks about, has calc_serialized_size <= max_node_size: a new entry
\* (tsn, [page_id]) or one more page id in an entry for the free-list leaf, one
\* more page id for the TSN-subtree leaf, one more key and child id for the
\* TSN-subtree internal node.
C25_FitExact ==
    /\ (how = "would_fit_new_tsn_and_page_id") =>
          \A i \in 1..Len(KeyList), page_id \in PageVals :
              result.ret = (calc_serialized_size(
                                push_new_key_and_value(node, KeyList[i], page_id).node)
                            <= result.args[1])
    /\ (how = "would_fit_new_page_id" /\ node.kind = "FreeListLeaf") =>
          \A idx \in 0..(Len(node.values) - 1), page_id \in PageVals :
              result.ret = (calc_serialized_size(push_new_page_id(node, idx, page_id).node)
                            <= result.args[1])
    /\ (how = "would_fit_new_page_id" /\ node.kind = "FreeListTsnLeaf") =>
          \A page_id \in PageVals :
              result.ret = (calc_serialized_size(
                                [node EXCEPT !.page_ids = Append(@, page_id)])
                            <= result.args[1])
    /\ (how = "would_fit_new_key_and_child") =>
          \A key \in PageVals, child \in PageVals :
              result.ret = (calc_serialized_size(
                                [node EXCEPT !.keys = Append(@, key),
                                             !.child_ids = Append(@, child)])
                            <= result.args[1])

\* A free-list leaf with one entry was asked about a max_node_size one byte
\* short of the size with a new entry, and the answer is false.
C25_Witness ==
    /\ how = "would_fit_new_tsn_and_page_id"
    /\ Len(node.keys) = 1 /\ Len(node.values) = 1
    /\ result.args[1] = calc_serialized_size(node) + 25
    /\ result.ret = FALSE

\* C26: a free-list leaf that starts empty and grows only by pushes whose fit
\* predicate is true for max_node_size has calc_serialized_size <= max_node_size
\* after every step, for every max_node_size >= 2 and every order of the pushes.
C26_PageBudget ==
    (pc = "grow") => calc_serialized_size(node) <= ser.cap

\* A leaf grown by both kinds of push, in either order, fills its budget to the
\* byte: two entries, the first with two page ids.
C26_Witness ==
    /\ pc = "grow"
    /\ Len(node.keys) = 2
    /\ Len(node.values[1].page_ids) = 2
    /\ calc_serialized_size(node) = ser.cap
    /\ how = "push_new_key_and_value"

\* The page ids the free-list leaf fl lists under the TSNs that satisfy Want.
FreeIdsWhere(fl, Want(_)) ==
    UNION { Range(fl.values[i].page_ids) : i \in {k \in 1..Len(fl.keys) : Want(fl.keys[k])} }

\* C27: when a commit assigns its page ids, each id comes from a free-list entry
\* whose TSN is below oldest_live_reader_tsn or from the high-water mark; ids
\* from the high-water mark are used only when every such entry is used up, and
\* an entry only when every such entry of a lower TSN is used up; the pages of
\* the commit get pairwise different ids; and an id taken from the free list is
\* listed in the new free list only if this commit freed it again.
C27_ReclaimRule ==
    [][ (w.st = "open" /\ w'.st = "assigned") =>
          LET fl == FreeLeaf(committed.free_root)
              W == DOMAIN w'.pages
              fresh == committed.next_page_id..(w'.newsb.next_page_id - 1)
              Below(k) == k < OldestLiveReaderTsn
              nfl == FreeLeaf(w'.newsb.free_root)
          IN /\ W \subseteq FreeIdsWhere(fl, Below) \cup fresh
             /\ fresh \subseteq W
             /\ fresh # {} => FreeIdsWhere(fl, Below) \subseteq W
             /\ \A i \in 1..Len(fl.keys) :
                   (Range(fl.values[i].page_ids) \cap W # {}) =>
                       /\ Below(fl.keys[i])
                       /\ \A k \in 1..(i - 1) : Range(fl.values[k].page_ids) \subseteq W
             /\ Cardinality(W) >= Cardinality(DOMAIN w.dirty)
             /\ Cardinality(W) <= Cardinality(DOMAIN w.dirty) + 1
             /\ w'.newsb.free_root # committed.free_root =>
                   \A i \in 1..Len(w'.pages[w'.newsb.free_root].keys) :
                       w'.pages[w'.newsb.free_root].keys[i] # w'.tsn =>
                           Range(w'.pages[w'.newsb.free_root].values[i].page_ids)
                               \cap W = {} ]_vars

\* A commit has taken ids from the free list and, the pool used up, from the
\* high-water mark as well, while an entry not yet passed by the oldest reader
\* stays in the free list.
C27_Witness ==
    /\ w.st = "assigned"
    /\ \E q \in DOMAIN w.pages : q < committed.next_page_id
    /\ w.newsb.next_page_id > committed.next_page_id
    /\ \E i \in 1..Len(FreeLeaf(committed.free_root).keys) :
          /\ FreeLeaf(committed.free_root).keys[i] >= OldestLiveReaderTsn
          /\ Range(FreeLeaf(committed.free_root).values[i].page_ids)
                \cap DOMAIN w.pages = {}

\* C28: the serialized buffer of an encodable node of a length-prefixed type,
\* followed by any trailing bytes, decodes to the same node, and the decoder
\* reads the first calc_serialized_size bytes only.
C28_PaddingTolerated ==
    (pc = "decoded" /\ how = "padded" /\ ser.tag = "Ok"
     /\ node.kind \in PrefixedKinds /\ Encodable(node))
        => /\ result.tag = "Ok"
           /\ result.node = node
           /\ result.used = calc_serialized_size(node)

\* A free-list leaf of two entries followed by two zero bytes came back equal.
C28_Witness ==
    /\ pc = "decoded" /\ how = "padded"
    /\ node.kind = "FreeListLeaf" /\ Len(node.keys) = 2 /\ Len(node.values) = 2
    /\ Len(buf) = calc_serialized_size(node) + 2
    /\ buf[Len(buf)] = 0 /\ buf[Len(buf) - 1] = 0
    /\ result.tag = "Ok" /\ result.node = node

\* The u16 at offset off of the serialized buffer says n.
PrefixAt(off, n) == ReadU16(buf, off) = n

RECURSIVE TagPrefixesFaithful(_, _, _)

\* The length prefix of each tag from the i-th on, the i-th starting at off.
TagPrefixesFaithful(tags, off, i) ==
    IF i > Len(tags) THEN TRUE
    ELSE /\ PrefixAt(off, Len(tags[i]))
         /\ TagPrefixesFaithful(tags, off + 2 + Len(tags[i]), i + 1)

\* The prefixes of the event value v serialized at off: event type length, then
\* data length (inline only), tag count and tag lengths.
ValuePrefixesFaithful(v, off) ==
    /\ PrefixAt(off + 1, Len(v.event_type))
    /\ IF v.variant = "Inline"
       THEN /\ PrefixAt(off + 3 + Len(v.event_type), Len(v.data))
            /\ PrefixAt(off + 5 + Len(v.event_type) + Len(v.data), Len(v.tags))
            /\ TagPrefixesFaithful(v.tags, off + 7 + Len(v.event_type) + Len(v.data), 1)
       ELSE /\ PrefixAt(off + 11 + Len(v.event_type), Len(v.tags))
            /\ TagPrefixesFaithful(v.tags, off + 13 + Len(v.event_type), 1)

RECURSIVE EventValuePrefixesFaithful(_, _, _)

EventValuePrefixesFaithful(values, off, i) ==
    IF i > Len(values) THEN TRUE
    ELSE /\ ValuePrefixesFaithful(values[i], off)
         /\ EventValuePrefixesFaithful(values, off + EventValueSize(values[i]), i + 1)

RECURSIVE FreeListValuePrefixesFaithful(_, _, _)

FreeListValuePrefixesFaithful(values, off, i) ==
    IF i > Len(values) THEN TRUE
    ELSE /\ PrefixAt(off, Len(values[i].page_ids))
         /\ FreeListValuePrefixesFaithful(values, off + 2 + 8 * Len(values[i].page_ids) + 8,
                                          i + 1)

\* C29 as claimed: in the buffer serialize_into has written, every u16 length
\* prefix equals the number of elements or bytes written after it, whatever
\* the element counts and byte lengths of the node.
C29_PrefixesFaithful ==
    (pc = "buf" /\ how = "exact" /\ ser.tag = "Ok") =>
        CASE node.kind = "EventLeaf" ->
                /\ PrefixAt(0, Len(node.keys))
                /\ EventValuePrefixesFaithful(node.values, 2 + 8 * Len(node.keys), 1)
          [] node.kind = "FreeListLeaf" ->
                /\ PrefixAt(0, Len(node.keys))
                /\ FreeListValuePrefixesFaithful(node.values, 2 + 8 * Len(node.keys), 1)
          [] node.kind = "EventInternal" -> PrefixAt(0, Len(node.keys))
          [] node.kind \in {"FreeListInternal", "FreeListTsnInternal"} ->
                /\ PrefixAt(0, Len(node.keys))
                /\ PrefixAt(2 + 8 * Len(node.keys), Len(node.child_ids))
          [] node.kind = "FreeListTsnLeaf" -> PrefixAt(0, Len(node.page_ids))
          [] OTHER -> TRUE

\* C30: pop_last_key_and_value on a non-empty leaf with as many keys as values
\* returns the last key with the last value, removes exactly that pair, leaves
\* the other pairs as they were and in order, and keeps as many keys as values;
\* the keys of a leaf being strictly ascending, the popped key is greater than
\* every key left behind, so the right sibling built from the pair holds one
\* element above all of the left node.
C30_PopLastPair ==
    [][(/\ how' = "pop_last_key_and_value"
        /\ Len(node.keys) >= 1
        /\ Len(node.keys) = Len(node.values))
        => /\ result'.tag = "Ok"
           /\ result'.ret = <<node.keys[Len(node.keys)], node.values[Len(node.values)]>>
           /\ node'.kind = node.kind
           /\ node'.keys = SubSeq(node.keys, 1, Len(node.keys) - 1)
           /\ node'.values = SubSeq(node.values, 1, Len(node.values) - 1)
           /\ Len(node'.keys) = Len(node'.values)
           /\ StrictlyAscending(node.keys) =>
                 \A i \in 1..Len(node'.keys) : U64Less(node'.keys[i], result'.ret[1])]_vars

\* A pop that left a leaf with a pair whose key is below the popped one and
\* whose value differs from the popped one.
C30_Witness ==
    /\ how = "pop_last_key_and_value" /\ result.tag = "Ok"
    /\ Len(node.keys) >= 1 /\ Len(node.keys) = Len(node.values)
    /\ U64Less(node.keys[Len(node.keys)], result.ret[1])
    /\ node.values[1] # result.ret[2]

====
